---- MODULE Spec2Model ----
(***************************************************************************)
(* A model of PlotEx (plotex.py): the State algebra (canonical quality     *)
(* dictionaries, the containment order, the meet), the built-in Action     *)
(* forms with their equivalence hints, the Graph search (run and           *)
(* find_maximal_state) and Test.verify.                                    *)
(***************************************************************************)
EXTENDS Integers, Sequences, FiniteSets, TLC

VARIABLES
    A, B, C,        \* operand States of the algebra and action harnesses
    act,            \* name of the Action under application
    out,            \* what the last applied operation returned
    addval,         \* the value argument of addquality
    trail,          \* the actions applied so far, one after another
    scen,           \* the scenario class of the run
    startstates,    \* Graph.startstates, in iteration order
    actions,        \* the action list handed to Graph.run (names)
    limit,          \* run's limit
    noopt,          \* run's noopt
    improveactions, \* run's improveactions
    changeactions,  \* run's changeactions
    states,         \* Graph.states: State -> GraphNode
    statels,        \* Graph.statels
    seenmaxes,      \* Graph.seenmaxes
    maxls,          \* Graph.maxls
    newstates,      \* run's queue newstates
    oldstate,       \* run's oldstate (the maximal being expanded)
    idx,            \* position in the for loop under way
    cstate,         \* find_maximal_state's state
    statechain,     \* find_maximal_state's statechain
    actchain,       \* find_maximal_state's actchain
    caller,         \* the loop of run that called find_maximal_state
    applied,        \* run's newstate = action(oldstate)
    pc,             \* position in Graph.run
    stopped,        \* the limit warning was printed
    prev,           \* the Graph of the previous run of the same inputs
    verdict,        \* the Test verified on the Graph and what verify returned
    global_scenario, \* the module's global_scenario
    shpc,           \* position in shell
    opts,           \* the options shell has parsed
    tix,            \* shell's position in runtests
    errors          \* shell's count of failed tests

algvars == <<A, B, C, act, out, addval, trail>>
shellvars == <<global_scenario, shpc, opts, tix, errors>>
runvars == <<scen, startstates, actions, limit, noopt, improveactions,
             changeactions, states, statels, seenmaxes, maxls, newstates,
             oldstate, idx, cstate, statechain, actchain, caller, applied,
             pc, stopped, prev, verdict>>
vars == <<A, B, C, act, out, addval, trail, global_scenario, shpc, opts, tix, errors,
          scen, startstates, actions, limit, noopt,
          improveactions, changeactions, states, statels, seenmaxes, maxls,
          newstates, oldstate, idx, cstate, statechain, actchain, caller,
          applied, pc, stopped, prev, verdict>>

(***************************************************************************)
(* Bounds of the model.                                                    *)
(***************************************************************************)
MaxInt == 2
\* Limits 1..MaxLimit are tried beside the default limit.
MaxLimit == 2
\* The longest chain of improvements find_maximal_state is followed along.
MaxClimb == 8

\* The longest result list showlist is given.
MaxList == 3

\* run(self, actions, limit=10000, noopt=False)
DefaultLimit == 10000

\* showlist: if (len(outls) <= 20)
ShowLimit == 20

(***************************************************************************)
(* Quality schema: _typemap and _sensemap of a scenario class.             *)
(***************************************************************************)
BoolKeys == {"sword", "lamp", "underground", "food", "kitchen", "pants",
             "wand", "_curse", "_hex", "_did_pray", "token"}
IntKeys  == {"gold", "_debt"}
StrKeys  == {"room", "_mood"}
SetKeys  == {"bag", "_wounds"}
AllKeys  == BoolKeys \cup IntKeys \cup StrKeys \cup SetKeys

\* The keys whose name starts with an underscore.
UnderscoreKeys == {"_curse", "_hex", "_did_pray", "_debt", "_mood", "_wounds"}

typemap(key) ==
    IF key \in BoolKeys THEN "bool"
    ELSE IF key \in IntKeys THEN "int"
    ELSE IF key \in StrKeys THEN "str"
    ELSE "set"

sensemap(key) == key \notin UnderscoreKeys

(***************************************************************************)
(* State: the canonical dictionary self.dic.                               *)
(***************************************************************************)
EmptyDic == [k \in {} |-> TRUE]

\* Python truth value of a quality value of key's type (the "not val" tests).
Truthy(key, val) ==
    CASE typemap(key) = "bool" -> val = TRUE
      [] typemap(key) = "int"  -> val # 0
      [] typemap(key) = "str"  -> val # ""
      [] OTHER                 -> val # {}

\* State.canonize: falsy values are deleted from the dictionary.
canonize(dic) ==
    [k \in {x \in DOMAIN dic : Truthy(x, dic[x])} |-> dic[k]]

\* State(**dic)
NewState(dic) == canonize(dic)

\* dict(state.dic) with dic[key] = val
DicSet(dic, key, val) ==
    [k \in DOMAIN dic \cup {key} |-> IF k = key THEN val ELSE dic[k]]

\* dict(state.dic) with the keys popped
DicPop(dic, keys) == [k \in DOMAIN dic \ keys |-> dic[k]]

\* State.atleast
atleast(self, key, val) ==
    IF ~Truthy(key, val) THEN TRUE
    ELSE IF key \notin DOMAIN self THEN FALSE
    ELSE CASE typemap(key) = "int" -> ~(self[key] < val)
           [] typemap(key) = "set" -> val \subseteq self[key]
           [] OTHER                -> self[key] = val

\* State.atmost
atmost(self, key, val) ==
    IF ~Truthy(key, val) /\ key \notin DOMAIN self THEN TRUE
    ELSE IF ~Truthy(key, val) THEN FALSE
    ELSE IF key \notin DOMAIN self THEN TRUE
    ELSE CASE typemap(key) = "int" -> ~(self[key] > val)
           [] typemap(key) = "set" -> self[key] \subseteq val
           [] OTHER                -> self[key] = val

\* contains without its second loop (the negative-sense keys of self)
containsPositiveOnly(self, other) ==
    \A key \in DOMAIN other :
       sensemap(key) => atleast(self, key, other[key])

\* State.contains: self.contains(other), that is other <= self
contains(self, other) ==
    /\ \A key \in DOMAIN other :
          sensemap(key) => atleast(self, key, other[key])
    /\ \A key \in DOMAIN self :
          ~sensemap(key) => atleast(other, key, self[key])

\* State.__eq__, __ne__, __gt__, __ge__, __lt__, __le__
StEq(self, other) == self = other
StNe(self, other) == self # other
StGt(self, other) == StNe(self, other) /\ contains(self, other)
StGe(self, other) == contains(self, other)
StLt(self, other) == StNe(self, other) /\ contains(other, self)
StLe(self, other) == contains(other, self)

Min(a, b) == IF a < b THEN a ELSE b
Max(a, b) == IF a > b THEN a ELSE b

\* __and__ keeping a positive-sense string although the two values differ
AndKeysNoStrCheck(self, other) ==
    {key \in DOMAIN self \cup DOMAIN other :
        IF sensemap(key)
        THEN key \in DOMAIN self /\ key \in DOMAIN other
        ELSE \/ key \notin DOMAIN self
             \/ key \notin DOMAIN other
             \/ typemap(key) # "str"
             \/ self[key] = other[key]}

\* State.__and__: the keys that receive an entry in the new dictionary
AndKeys(self, other) ==
    {key \in DOMAIN self \cup DOMAIN other :
        IF sensemap(key)
        THEN /\ key \in DOMAIN self
             /\ key \in DOMAIN other
             /\ (typemap(key) = "str" => self[key] = other[key])
        ELSE \/ key \notin DOMAIN self
             \/ key \notin DOMAIN other
             \/ typemap(key) # "str"
             \/ self[key] = other[key]}

\* __and__ taking max where min is meant, and min where max is meant
AndValueSwapped(self, other, key) ==
    IF sensemap(key)
    THEN CASE typemap(key) = "bool" -> (self[key] /\ other[key])
           [] typemap(key) = "int"  -> Max(self[key], other[key])
           [] typemap(key) = "set"  -> self[key] \cap other[key]
           [] OTHER                 -> self[key]
    ELSE IF key \notin DOMAIN self THEN other[key]
    ELSE IF key \notin DOMAIN other THEN self[key]
    ELSE CASE typemap(key) = "bool" -> (self[key] \/ other[key])
           [] typemap(key) = "int"  -> Min(self[key], other[key])
           [] typemap(key) = "set"  -> self[key] \cup other[key]
           [] OTHER                 -> self[key]

\* State.__and__: the entry computed for one key
AndValue(self, other, key) ==
    IF sensemap(key)
    THEN CASE typemap(key) = "bool" -> (self[key] /\ other[key])
           [] typemap(key) = "int"  -> Min(self[key], other[key])
           [] typemap(key) = "set"  -> self[key] \cap other[key]
           [] OTHER                 -> self[key]
    ELSE IF key \notin DOMAIN self THEN other[key]
    ELSE IF key \notin DOMAIN other THEN self[key]
    ELSE CASE typemap(key) = "bool" -> (self[key] \/ other[key])
           [] typemap(key) = "int"  -> Max(self[key], other[key])
           [] typemap(key) = "set"  -> self[key] \cup other[key]
           [] OTHER                 -> self[key]

\* State.__and__
StAnd(self, other) ==
    NewState([key \in AndKeys(self, other) |-> AndValue(self, other, key)])

(***************************************************************************)
(* Actions.  An Action object is a record: its form (the class), the       *)
(* parameters __init__ stores and the equivtype __init__ computes.  A call *)
(* returns Blocked for None and Yield(state) for a State.                  *)
(***************************************************************************)
EQUIV_UNKNOWN == "????"
EQUIV_SAME    == "SAME"
EQUIV_IMPROVE == "IMPR"
EQUIV_LOSS    == "LOSS"

Blocked == [ok |-> FALSE, st |-> EmptyDic]
Yield(state) == [ok |-> TRUE, st |-> state]

\* Set.__init__: the equivtype
SetEquivtype(params) ==
    IF \A key \in DOMAIN params : typemap(key) = "bool"
    THEN LET pos == Cardinality({key \in DOMAIN params :
                        \/ (key \notin UnderscoreKeys /\ params[key])
                        \/ (key \in UnderscoreKeys /\ ~params[key])})
         IN  IF pos = Cardinality(DOMAIN params) THEN EQUIV_IMPROVE
             ELSE EQUIV_LOSS
    ELSE EQUIV_UNKNOWN

\* Lose.__init__: the equivtype
LoseEquivtype(keys) ==
    IF Cardinality(keys \ UnderscoreKeys) > 0 THEN EQUIV_LOSS
    ELSE EQUIV_IMPROVE

\* Chain.__init__: the equivtype
ChainEquivtype(acs) ==
    LET losses   == Cardinality({i \in DOMAIN acs :
                        acs[i].equivtype = EQUIV_LOSS})
        improves == Cardinality({i \in DOMAIN acs :
                        acs[i].equivtype \in {EQUIV_SAME, EQUIV_IMPROVE}})
    IN  IF losses > 0 THEN EQUIV_LOSS
        ELSE IF improves = Len(acs) THEN EQUIV_IMPROVE
        ELSE EQUIV_UNKNOWN

\* The constructors (__init__) of the built-in forms.
Set(params)   == [form |-> "Set", params |-> params,
                  equivtype |-> SetEquivtype(params)]
Reset(params) == [form |-> "Reset", params |-> params,
                  equivtype |-> EQUIV_UNKNOWN]
Has(params)   == [form |-> "Has", params |-> params,
                  equivtype |-> EQUIV_SAME]
HasAny(params) == [form |-> "HasAny", params |-> params,
                   equivtype |-> EQUIV_SAME]
Lose(keys)    == [form |-> "Lose", keys |-> keys,
                  equivtype |-> LoseEquivtype(keys)]
\* Once(key) and Once(action); key is the key set_scenario leaves in self.key
Once(key)     == [form |-> "Once", key |-> key, wraps |-> FALSE,
                  equivtype |-> EQUIV_LOSS]
OnceAction(key, action) ==
                 [form |-> "Once", key |-> key, wraps |-> TRUE,
                  action |-> action, equivtype |-> EQUIV_LOSS]
\* limited is FALSE for limit=None
Increment(key, limited, lim) ==
                 [form |-> "Increment", key |-> key, limited |-> limited,
                  limit |-> lim,
                  equivtype |-> IF key \notin UnderscoreKeys
                                THEN EQUIV_IMPROVE ELSE EQUIV_LOSS]
Decrement(key, limited, lim) ==
                 [form |-> "Decrement", key |-> key, limited |-> limited,
                  limit |-> lim,
                  equivtype |-> IF key \notin UnderscoreKeys
                                THEN EQUIV_LOSS ELSE EQUIV_IMPROVE]
Include(key, values) ==
                 [form |-> "Include", key |-> key, values |-> values,
                  equivtype |-> EQUIV_UNKNOWN]
Exclude(key, values) ==
                 [form |-> "Exclude", key |-> key, values |-> values,
                  equivtype |-> EQUIV_UNKNOWN]
Count(key, count) ==
                 [form |-> "Count", key |-> key, count |-> count,
                  equivtype |-> EQUIV_SAME]
HasDifferent(key, values) ==
                 [form |-> "HasDifferent", key |-> key, values |-> values,
                  equivtype |-> EQUIV_SAME]
Chain(acs) == [form |-> "Chain", actions |-> acs,
               equivtype |-> ChainEquivtype(acs)]
Choice(acs) == [form |-> "Choice", actions |-> acs,
                    equivtype |-> EQUIV_UNKNOWN]

\* dic.get(key, 0) and dic.get(key, frozenset())
GetInt(dic, key) == IF key \in DOMAIN dic THEN dic[key] ELSE 0
GetSet(dic, key) == IF key \in DOMAIN dic THEN dic[key] ELSE {}

\* Set.__call__
SetCall(self, state) ==
    Yield(NewState([key \in DOMAIN state \cup DOMAIN self.params |->
                      IF key \in DOMAIN self.params THEN self.params[key]
                      ELSE state[key]]))

\* Reset.__call__
ResetCall(self, state) == Yield(NewState(self.params))

\* One constraint of Has / HasAny
HasOne(self, state, key) ==
    IF sensemap(key) THEN atleast(state, key, self.params[key])
    ELSE atmost(state, key, self.params[key])

\* A Has that writes its parameters into the state it returns
HasCallWrites(self, state) ==
    IF \A key \in DOMAIN self.params : HasOne(self, state, key)
    THEN SetCall(self, state) ELSE Blocked

\* Has.__call__
HasCall(self, state) ==
    IF \A key \in DOMAIN self.params : HasOne(self, state, key)
    THEN Yield(state) ELSE Blocked

\* HasAny.__call__
HasAnyCall(self, state) ==
    IF \E key \in DOMAIN self.params : HasOne(self, state, key)
    THEN Yield(state) ELSE Blocked

\* Lose.__call__
LoseCall(self, state) ==
    IF \E key \in self.keys : key \notin DOMAIN state THEN Blocked
    ELSE Yield(NewState(DicPop(state, self.keys)))

\* Increment.__call__
IncrementCall(self, state) ==
    LET val == GetInt(state, self.key)
    IN  IF self.limited /\ val >= self.limit THEN Blocked
        ELSE Yield(NewState(DicSet(state, self.key, val + 1)))

\* Decrement.__call__
DecrementCall(self, state) ==
    LET val == GetInt(state, self.key)
    IN  IF self.limited /\ val <= self.limit THEN Blocked
        ELSE Yield(NewState(DicSet(state, self.key, val - 1)))

\* Include.__call__
IncludeCall(self, state) ==
    Yield(NewState(DicSet(state, self.key,
                          GetSet(state, self.key) \cup self.values)))

\* Exclude.__call__
ExcludeCall(self, state) ==
    LET val == GetSet(state, self.key)
    IN  IF ~(self.values \subseteq val) THEN Blocked
        ELSE Yield(NewState(DicSet(state, self.key, val \ self.values)))

\* Count.__call__
CountCall(self, state) ==
    IF Cardinality(GetSet(state, self.key)) < self.count THEN Blocked
    ELSE Yield(state)

\* HasDifferent.__call__
HasDifferentCall(self, state) ==
    IF self.key \notin DOMAIN state THEN Blocked
    ELSE IF state[self.key] \in self.values THEN Blocked
    ELSE Yield(state)

\* Once.__call__ up to new_state: the flag is set (negative-sense key) or
\* consumed (positive-sense key)
OnceFlagUntested(self, state) ==
    Yield(NewState(DicSet(state, self.key, ~sensemap(self.key))))

\* Once.__call__, lines 960-968: the test and the change of the flag key
OnceFlag(self, state) ==
    IF ~sensemap(self.key)
    THEN IF self.key \in DOMAIN state THEN Blocked
         ELSE Yield(NewState(DicSet(state, self.key, TRUE)))
    ELSE IF self.key \notin DOMAIN state THEN Blocked
         ELSE Yield(NewState(DicSet(state, self.key, FALSE)))

RECURSIVE Call(_, _), ChainCall(_, _, _), ChoiceCall(_, _, _)

\* Chain.__call__, from the i-th action on
ChainCall(acs, i, state) ==
    IF i > Len(acs) THEN Yield(state)
    ELSE LET r == Call(acs[i], state)
         IN  IF ~r.ok THEN Blocked ELSE ChainCall(acs, i + 1, r.st)

\* Choice.__call__, from the i-th action on
ChoiceCall(acs, i, state) ==
    IF i > Len(acs) THEN Blocked
    ELSE LET r == Call(acs[i], state)
         IN  IF r.ok THEN r ELSE ChoiceCall(acs, i + 1, state)

\* action(state): Action.__call__ of the action's class
Call(action, state) ==
    CASE action.form = "Set"          -> SetCall(action, state)
      [] action.form = "Reset"        -> ResetCall(action, state)
      [] action.form = "Has"          -> HasCall(action, state)
      [] action.form = "HasAny"       -> HasAnyCall(action, state)
      [] action.form = "Lose"         -> LoseCall(action, state)
      [] action.form = "Increment"    -> IncrementCall(action, state)
      [] action.form = "Decrement"    -> DecrementCall(action, state)
      [] action.form = "Include"      -> IncludeCall(action, state)
      [] action.form = "Exclude"      -> ExcludeCall(action, state)
      [] action.form = "Count"        -> CountCall(action, state)
      [] action.form = "HasDifferent" -> HasDifferentCall(action, state)
      [] action.form = "Once" ->
            LET r == OnceFlag(action, state)
            IN  IF ~r.ok THEN Blocked
                ELSE IF ~action.wraps THEN r
                ELSE Call(action.action, r.st)
      [] action.form = "Chain"  -> ChainCall(action.actions, 1, state)
      [] action.form = "Choice" -> ChoiceCall(action.actions, 1, state)

(***************************************************************************)
(* Scenario classes: the TestScenario of the source, and three further     *)
(* declared scenarios that use the other forms, senses and types.  Each    *)
(* class lists its action names as shell sorts them (by name).             *)
(***************************************************************************)
ActionDef(name) ==
    CASE \* TestScenario
         name = "FindSword"   -> Set("sword" :> TRUE)
      [] name = "FindLamp"    -> Set("lamp" :> TRUE)
      [] name = "EnterCave"   -> Chain(<<Has("lamp" :> TRUE),
                                         Set("underground" :> TRUE)>>)
      [] name = "FeedSelf"    -> Lose({"food"})
      [] name = "FeedCyclops" -> Chain(<<Has("underground" :> TRUE),
                                         Lose({"food"}),
                                         Set("kitchen" :> TRUE)>>)
      [] name = "FeedOrc"     -> Chain(<<Lose({"food"}),
                                         Set("pants" :> TRUE)>>)
      [] name = "KitchenCook" -> Chain(<<Has("kitchen" :> TRUE),
                                         Set("food" :> TRUE)>>)
         \* CurseScenario
      [] name = "Absolve"     -> Lose({"_curse"})
      [] name = "Pray"        -> Once("_did_pray")
      [] name = "Purge"       -> Lose({"_curse", "_hex"})
      [] name = "Swap"        -> Set(("sword" :> TRUE) @@ ("lamp" :> FALSE))
      [] name = "Taint"       -> Set("_curse" :> TRUE)
      [] name = "Trade"       -> Chain(<<Lose({"lamp"}),
                                         Set(("lamp" :> TRUE) @@
                                             ("sword" :> TRUE))>>)
         \* PurseScenario
      [] name = "Borrow"      -> Chain(<<Increment("_debt", TRUE, 1),
                                         Increment("gold", TRUE, MaxInt)>>)
      [] name = "Buy"         -> Chain(<<Decrement("gold", TRUE, 0),
                                         Include("bag", {"y"})>>)
      [] name = "Earn"        -> Increment("gold", TRUE, MaxInt)
      [] name = "Pack"        -> Include("bag", {"x"})
      [] name = "Sell"        -> Chain(<<Exclude("bag", {"y"}),
                                         Increment("gold", TRUE, MaxInt)>>)
         \* RoomScenario
      [] name = "Walk1HallCellar"  ->
            Chain(<<Has("room" :> "hall"), Set("room" :> "cellar")>>)
      [] name = "Walk2HallAttic"   ->
            Chain(<<Has("room" :> "hall"), Set("room" :> "attic")>>)
      [] name = "Walk3CellarYard"  ->
            Chain(<<Has("room" :> "cellar"), Set("room" :> "yard")>>)
      [] name = "Walk4AtticCellar" ->
            Chain(<<Has("room" :> "attic"), Set("room" :> "cellar")>>)
      [] name = "Walk5YardAttic"   ->
            Chain(<<Has("room" :> "yard"), Set("room" :> "attic")>>)
         \* FormsScenario
      [] name = "AnyLampGold" -> HasAny(("lamp" :> TRUE) @@ ("gold" :> 1))
      [] name = "BagTwo"      -> Count("bag", 2)
      [] name = "Douse"       -> Set("lamp" :> FALSE)
      [] name = "Either"      -> Choice(<<Chain(<<Has("lamp" :> TRUE),
                                                  Set("sword" :> TRUE)>>),
                                          Set("room" :> "a")>>)
      [] name = "Forget"      -> Reset("lamp" :> TRUE)
      [] name = "Grow"        -> Increment("gold", FALSE, 0)
      [] name = "HasBagX"     -> Has("bag" :> {"x"})
      [] name = "HasDebtOne"  -> Has("_debt" :> 1)
      [] name = "HasGoldTwo"  -> Has(("gold" :> 2) @@ ("lamp" :> TRUE))
      [] name = "HasMood"     -> HasAny(("_mood" :> "a") @@ ("room" :> "b"))
      [] name = "HasNoCurse"  -> Has(("_curse" :> FALSE) @@ ("_wounds" :> {"x"}))
      [] name = "NotRoomA"    -> HasDifferent("room", {"a"})
      [] name = "Overdraw"    -> Decrement("gold", FALSE, 0)
      [] name = "Owe"         -> Increment("_debt", FALSE, 0)
      [] name = "Refill"      -> Chain(<<Lose({"food"}), Set("food" :> TRUE)>>)
      [] name = "Relief"      -> Decrement("_debt", TRUE, 0)
      [] name = "Rest"        -> Chain(<<Has("lamp" :> TRUE)>>)
      [] name = "UseToken"    -> Once("token")
      [] name = "Vow"         -> OnceAction("_did_pray", Lose({"_hex"}))

ScenarioNames == {"TestScenario", "CurseScenario", "PurseScenario",
                  "RoomScenario", "FormsScenario"}

\* _actionmap of a scenario class, sorted by name
ActionNames(cls) ==
    CASE cls = "TestScenario" ->
            <<"EnterCave", "FeedCyclops", "FeedOrc", "FeedSelf", "FindLamp",
              "FindSword", "KitchenCook">>
      [] cls = "CurseScenario" ->
            <<"Absolve", "Pray", "Purge", "Swap", "Taint", "Trade">>
      [] cls = "PurseScenario" ->
            <<"Borrow", "Buy", "Earn", "Pack", "Sell">>
      [] cls = "RoomScenario" ->
            <<"Walk1HallCellar", "Walk2HallAttic", "Walk3CellarYard",
              "Walk4AtticCellar", "Walk5YardAttic">>
      [] cls = "FormsScenario" ->
            <<"AnyLampGold", "BagTwo", "Douse", "Either", "Forget", "Grow",
              "HasBagX", "HasDebtOne", "HasGoldTwo", "HasMood", "HasNoCurse",
              "NotRoomA", "Overdraw", "Owe", "Refill", "Relief", "Rest",
              "UseToken", "Vow">>

Range(seq) == {seq[i] : i \in DOMAIN seq}

AllActionNames == UNION {Range(ActionNames(cls)) : cls \in ScenarioNames}

\* The quality keys an action names (its own and its subactions').
RECURSIVE Touches(_)
Touches(action) ==
    CASE action.form \in {"Set", "Reset", "Has", "HasAny"} ->
            DOMAIN action.params
      [] action.form = "Lose" -> action.keys
      [] action.form = "Once" ->
            {action.key} \cup
            (IF action.wraps THEN Touches(action.action) ELSE {})
      [] action.form \in {"Chain", "Choice"} ->
            UNION {Touches(action.actions[i]) : i \in DOMAIN action.actions}
      [] OTHER -> {action.key}

(***************************************************************************)
(* Graph and GraphNode.                                                    *)
(***************************************************************************)
\* GraphNode.__init__; hasmax is FALSE while maximal is None
GraphNode(state) ==
    [state |-> state, hasmax |-> FALSE, maximal |-> EmptyDic,
     maxing_actions |-> <<>>, is_maximal |-> FALSE, children |-> <<>>,
     parents |-> <<>>, history |-> <<>>, ancestors |-> {}]

\* self.states[state] = node
Put(tbl, state, node) == (state :> node) @@ tbl

\* an improvement counted only when the action's hint is IMPROVE (not what
\* find_maximal_state does)
IsImprovementHintedOnly(name, state) ==
    LET r == Call(ActionDef(name), state)
    IN  /\ ActionDef(name).equivtype = EQUIV_IMPROVE
        /\ r.ok
        /\ StGt(r.st, state)

\* find_maximal_state: is this action an improvement of state?
IsImprovement(name, state) ==
    LET r == Call(ActionDef(name), state)
    IN  /\ r.ok
        /\ ~StEq(r.st, state)
        /\ StGt(r.st, state)

\* find_maximal_state: the for loop over the actions; the position of the
\* first improvement from position k on, 0 when there is none
RECURSIVE FirstImprovement(_, _, _)
FirstImprovement(acts, k, state) ==
    IF k > Len(acts) THEN 0
    ELSE IF IsImprovement(acts[k], state) THEN k
    ELSE FirstImprovement(acts, k + 1, state)

\* The last position of state in statechain, 0 when it is not in it.
ChainPos(chain, state) ==
    LET ps == {p \in DOMAIN chain : chain[p] = state}
    IN  IF ps = {} THEN 0 ELSE CHOOSE p \in ps : \A q \in ps : q <= p

\* maximal and maxing_actions set on the first state of the chain only (not
\* what find_maximal_state does)
SetChainFirstOnly(tbl, chain, acts, hasmax, maximal, tailactions) ==
    [s \in DOMAIN tbl |->
        IF chain = <<>> \/ s # chain[1] THEN tbl[s]
        ELSE [tbl[s] EXCEPT !.hasmax = hasmax,
                            !.maximal = maximal,
                            !.maxing_actions = acts \o tailactions]]

\* find_maximal_state: the two loops "for newstate in statechain" that set
\* maximal and maxing_actions of every state of the chain
SetChain(tbl, chain, acts, hasmax, maximal, tailactions) ==
    [s \in DOMAIN tbl |->
        LET pos == ChainPos(chain, s)
        IN  IF pos = 0 THEN tbl[s]
            ELSE [tbl[s] EXCEPT
                    !.hasmax = hasmax,
                    !.maximal = maximal,
                    !.maxing_actions =
                        SubSeq(acts, pos, Len(acts)) \o tailactions]]

\* the inner loop of showlist looking only at the states after state1 (not
\* what showlist does)
RECURSIVE TrumpInnerLaterOnly(_, _, _, _)
TrumpInnerLaterOnly(outls, i, j, trumped) ==
    IF j > Len(outls) THEN trumped
    ELSE IF j <= i \/ outls[j] \in trumped THEN
        TrumpInnerLaterOnly(outls, i, j + 1, trumped)
    ELSE IF StLt(outls[j], outls[i]) THEN
        TrumpInnerLaterOnly(outls, i, j + 1, trumped \cup {outls[j]})
    ELSE TrumpInnerLaterOnly(outls, i, j + 1, trumped)

\* showlist, lines 318-324: "for state2 in outls", state1 being outls[i]
RECURSIVE TrumpInner(_, _, _, _)
TrumpInner(outls, i, j, trumped) ==
    IF j > Len(outls) THEN trumped
    ELSE IF outls[j] \in trumped \/ StEq(outls[i], outls[j]) THEN
        TrumpInner(outls, i, j + 1, trumped)
    ELSE IF StLt(outls[j], outls[i]) THEN
        TrumpInner(outls, i, j + 1, trumped \cup {outls[j]})
    ELSE TrumpInner(outls, i, j + 1, trumped)

\* showlist, lines 315-324: "for state1 in outls"
RECURSIVE TrumpOuter(_, _, _)
TrumpOuter(outls, i, trumped) ==
    IF i > Len(outls) THEN trumped
    ELSE IF outls[i] \in trumped THEN TrumpOuter(outls, i + 1, trumped)
    ELSE TrumpOuter(outls, i + 1, TrumpInner(outls, i, 1, trumped))

\* showlist, lines 312-326: the trumped set of outls; none is None
Trumped(outls) ==
    IF Len(outls) <= ShowLimit
    THEN [none |-> FALSE, set |-> TrumpOuter(outls, 1, {})]
    ELSE [none |-> TRUE, set |-> {}]

(***************************************************************************)
(* Test.                                                                   *)
(***************************************************************************)
\* Test.__init__: every argument is kept as a list (block as a set)
Test(start, block, includes, excludes, can, cannot, gets, getsnot) ==
    [startstatelist |-> start, blockactions |-> block,
     includeactions |-> includes, excludeactions |-> excludes,
     canactions |-> can, cannotactions |-> cannot,
     getqualities |-> gets, getnotqualities |-> getsnot]

\* Test.verify: does state pass one criterion?  kind "qual": the state has
\* the quality; "can": the action yields a state; "hist": the action is in
\* the history of the state's node
Passes(kind, item, state, tbl) ==
    CASE kind = "qual" -> item \in DOMAIN state
      [] kind = "can"  -> Call(item, state).ok
      [] OTHER         -> \E i \in DOMAIN tbl[state].history :
                             tbl[state].history[i] = item

\* Test.verify: one of the first three loops; each item filters the states,
\* and an empty list of states returns False
RECURSIVE Retain(_, _, _, _, _)
Retain(kind, items, i, sts, tbl) ==
    IF i > Len(items) THEN [ok |-> TRUE, sts |-> sts]
    ELSE LET kept == {state \in sts : Passes(kind, items[i], state, tbl)}
         IN  IF kept = {} THEN [ok |-> FALSE, sts |-> {}]
             ELSE Retain(kind, items, i + 1, kept, tbl)

\* Test.verify: one of the last three loops; a state passing an item
\* returns False
Rejects(kind, items, sts, tbl) ==
    \E i \in DOMAIN items :
       {state \in sts : Passes(kind, items[i], state, tbl)} # {}

\* verify with the last three loops run over all states of the graph
verifyUnfiltered(test, tbl) ==
    LET g == Retain("qual", test.getqualities, 1, DOMAIN tbl, tbl)
        c == Retain("can", test.canactions, 1, g.sts, tbl)
        h == Retain("hist", test.includeactions, 1, c.sts, tbl)
    IN  /\ g.ok
        /\ c.ok
        /\ h.ok
        /\ ~Rejects("qual", test.getnotqualities, DOMAIN tbl, tbl)
        /\ ~Rejects("can", test.cannotactions, DOMAIN tbl, tbl)
        /\ ~Rejects("hist", test.excludeactions, DOMAIN tbl, tbl)

\* Test.verify(graph), tbl being graph.states
verify(test, tbl) ==
    LET g == Retain("qual", test.getqualities, 1, DOMAIN tbl, tbl)
        c == Retain("can", test.canactions, 1, g.sts, tbl)
        h == Retain("hist", test.includeactions, 1, c.sts, tbl)
    IN  /\ g.ok
        /\ c.ok
        /\ h.ok
        /\ ~Rejects("qual", test.getnotqualities, h.sts, tbl)
        /\ ~Rejects("can", test.cannotactions, h.sts, tbl)
        /\ ~Rejects("hist", test.excludeactions, h.sts, tbl)

(***************************************************************************)
(* The declared states and tests of the scenario classes.                  *)
(***************************************************************************)
StateDef(name) ==
    CASE name = "Start" -> NewState("food" :> TRUE)           \* TestScenario
      [] name = "Empty" -> NewState(EmptyDic)                 \* State()
      [] name = "Cursed" -> NewState(("_curse" :> TRUE) @@ ("_hex" :> TRUE))
      [] name = "Lit"    -> NewState("lamp" :> TRUE)
      [] name = "Packed" -> NewState(("gold" :> 1) @@ ("bag" :> {"x"}))
      [] name = "Hall"   -> NewState("room" :> "hall")

\* The lists of starting states a run is given.
StartChoices(cls) ==
    CASE cls = "TestScenario" ->
            {<<StateDef("Start")>>, <<StateDef("Empty")>>,
             <<StateDef("Empty"), StateDef("Start")>>}
      [] cls = "CurseScenario" ->
            {<<StateDef("Cursed")>>, <<StateDef("Lit")>>,
             <<StateDef("Lit"), StateDef("Cursed")>>}
      [] cls = "PurseScenario" ->
            {<<StateDef("Empty")>>, <<StateDef("Packed")>>}
      [] cls = "RoomScenario" -> {<<StateDef("Hall")>>}

TestDef(name) ==
    CASE \* TestScenario
         name = "Test1" -> Test(<<StateDef("Start")>>, {}, <<>>, <<>>, <<>>,
                                <<>>, <<"pants">>, <<>>)
      [] name = "Test2" -> Test(<<>>, {}, <<>>, <<>>,
                                <<Has("pants" :> TRUE)>>, <<>>, <<>>, <<>>)
      [] name = "Test3" -> Test(<<>>, {}, <<>>, <<>>, <<>>,
                                <<Has("wand" :> TRUE)>>, <<>>, <<>>)
      [] name = "Test4" -> Test(<<>>, {"KitchenCook"}, <<>>, <<>>, <<>>,
                                <<Has(("pants" :> TRUE) @@
                                      ("kitchen" :> TRUE))>>, <<>>, <<>>)
      [] name = "Test5" -> Test(<<StateDef("Empty")>>, {}, <<>>, <<>>, <<>>,
                                <<>>, <<>>, <<"pants">>)
      [] name = "Test6" -> Test(<<>>, {}, <<"KitchenCook">>, <<>>, <<>>,
                                <<>>, <<>>, <<>>)
      [] name = "Test7" -> Test(<<>>, {"FeedCyclops"}, <<>>,
                                <<"KitchenCook">>, <<>>, <<>>, <<>>, <<>>)
         \* further tests over the qualities and actions of TestScenario
      [] name = "TestGetsTwo" ->
            Test(<<>>, {}, <<>>, <<>>, <<>>, <<>>, <<"pants", "sword">>,
                 <<"food">>)
      [] name = "TestCanTwo" ->
            Test(<<>>, {}, <<>>, <<>>,
                 <<Has("kitchen" :> TRUE), Has("lamp" :> TRUE)>>,
                 <<Has("food" :> TRUE)>>, <<>>, <<>>)
      [] name = "TestPath" ->
            Test(<<>>, {}, <<"FeedOrc", "FindLamp">>, <<"FeedSelf">>, <<>>,
                 <<>>, <<>>, <<>>)
      [] name = "TestMixed" ->
            Test(<<>>, {}, <<"FeedOrc">>, <<"KitchenCook">>,
                 <<Has("sword" :> TRUE)>>, <<Has("kitchen" :> TRUE)>>,
                 <<"pants">>, <<"food">>)
         \* CurseScenario
      [] name = "TestPious" ->
            Test(<<>>, {}, <<"Pray">>, <<"Taint">>, <<>>, <<>>,
                 <<"sword">>, <<"_curse">>)
      [] name = "TestClean" ->
            Test(<<>>, {}, <<>>, <<>>, <<Has("_hex" :> FALSE)>>,
                 <<Has("lamp" :> TRUE)>>, <<"_did_pray">>, <<>>)
         \* PurseScenario
      [] name = "TestRich" ->
            Test(<<>>, {}, <<"Buy">>, <<"Borrow">>, <<Has("gold" :> 2)>>,
                 <<Count("bag", 2)>>, <<"bag">>, <<"_debt">>)
         \* RoomScenario
      [] name = "TestYard" ->
            Test(<<>>, {}, <<"Walk3CellarYard">>, <<>>,
                 <<Has("room" :> "yard")>>, <<>>, <<"room">>, <<>>)

\* _testmap of a scenario class
TestNames(cls) ==
    CASE cls = "TestScenario" ->
            {"Test1", "Test2", "Test3", "Test4", "Test5", "Test6", "Test7",
             "TestGetsTwo", "TestCanTwo", "TestPath", "TestMixed"}
      [] cls = "CurseScenario" -> {"TestPious", "TestClean"}
      [] cls = "PurseScenario" -> {"TestRich"}
      [] cls = "RoomScenario" -> {"TestYard"}

\* The scenario classes the search is run on.
RunScenarios == {"TestScenario", "CurseScenario", "PurseScenario",
                 "RoomScenario"}

(***************************************************************************)
(* Graph.run, step by step.  pc: "begin" (lines 177-184), "start" (the for *)
(* loop over the starting states), "loop" (the head of the while loop),    *)
(* "expand" (the for loop over changeactions), "climb" (the while loop of  *)
(* find_maximal_state), "done" (run has returned), "hung" (the while loop  *)
(* of find_maximal_state went beyond MaxClimb states), "verified"          *)
(* (Test.verify has returned).                                             *)
(***************************************************************************)
NoPrev == [has |-> FALSE, noopt |-> FALSE, stopped |-> FALSE,
           maxls |-> <<>>, states |-> EmptyDic]
NoVerdict == [name |-> "none", pass |-> FALSE]

Limits == (1 .. MaxLimit) \cup {DefaultLimit}

\* Graph.__init__, and the arguments of run as shell prepares them: the
\* actions of the scenario that are not blocked, sorted by name.
InitRun ==
    /\ scen \in RunScenarios
    /\ \E block \in SUBSET Range(ActionNames(scen)) :
          LET Kept(name) == name \notin block
          IN  actions = SelectSeq(ActionNames(scen), Kept)
    /\ startstates \in StartChoices(scen)
    /\ limit \in Limits
    /\ noopt \in BOOLEAN
    /\ improveactions = <<>>
    /\ changeactions = <<>>
    /\ states = EmptyDic
    /\ statels = <<>>
    /\ seenmaxes = {}
    /\ maxls = <<>>
    /\ newstates = <<>>
    /\ oldstate = EmptyDic
    /\ idx = 1
    /\ cstate = EmptyDic
    /\ statechain = <<>>
    /\ actchain = <<>>
    /\ caller = "none"
    /\ applied = EmptyDic
    /\ pc = "begin"
    /\ stopped = FALSE
    /\ prev = NoPrev
    /\ verdict = NoVerdict

\* global_scenario = None
None == "None"

NoVal == [typ |-> "none"]
NoOpts == [runtests |-> <<>>, blockactions |-> {}, withholdactions |-> {},
           startstates |-> <<>>, genlimit |-> DefaultLimit, noopt |-> FALSE]

\* shell is not running
IdleShell ==
    /\ global_scenario = None
    /\ shpc = "idle"
    /\ opts = NoOpts
    /\ tix = 1
    /\ errors = 0

IdleAlg ==
    /\ A = EmptyDic
    /\ B = EmptyDic
    /\ C = EmptyDic
    /\ act = "none"
    /\ addval = NoVal
    /\ trail = <<>>
    /\ out = [op |-> "none", flag |-> FALSE, st |-> EmptyDic]

IdleRun ==
    /\ scen = "none"
    /\ actions = <<>>
    /\ startstates = <<>>
    /\ limit = DefaultLimit
    /\ noopt = FALSE
    /\ improveactions = <<>>
    /\ changeactions = <<>>
    /\ states = EmptyDic
    /\ statels = <<>>
    /\ seenmaxes = {}
    /\ maxls = <<>>
    /\ newstates = <<>>
    /\ oldstate = EmptyDic
    /\ idx = 1
    /\ cstate = EmptyDic
    /\ statechain = <<>>
    /\ actchain = <<>>
    /\ caller = "none"
    /\ applied = EmptyDic
    /\ pc = "idle"
    /\ stopped = FALSE
    /\ prev = NoPrev
    /\ verdict = NoVerdict

Hint(name) == ActionDef(name).equivtype

\* run: improveactions when noopt is not set
ImproveFilter(acts) ==
    LET Keep(name) == Hint(name) # EQUIV_LOSS
    IN  SelectSeq(acts, Keep)

\* changeactions without the LOSS actions (not what run does)
ChangeFilterUnknownOnly(acts) ==
    LET Keep(name) == Hint(name) = EQUIV_UNKNOWN
    IN  SelectSeq(acts, Keep)

\* run: changeactions when noopt is not set
ChangeFilter(acts) ==
    LET Keep(name) == Hint(name) \in {EQUIV_LOSS, EQUIV_UNKNOWN}
    IN  SelectSeq(acts, Keep)

\* run, lines 177-184
Begin ==
    /\ pc = "begin"
    /\ improveactions' = IF noopt THEN actions ELSE ImproveFilter(actions)
    /\ changeactions' = IF noopt THEN actions ELSE ChangeFilter(actions)
    /\ newstates' = <<>>
    /\ idx' = 1
    /\ pc' = IF startstates = <<>> THEN "loop" ELSE "start"
    /\ UNCHANGED <<scen, startstates, actions, limit, noopt, states, statels,
                   seenmaxes, maxls, oldstate, cstate, statechain, actchain,
                   caller, applied, stopped, prev, verdict>>
    /\ UNCHANGED algvars
    /\ UNCHANGED shellvars

\* lines 187-192 with the history of the starting maximal left empty (not
\* what run does)
StartReturnEmptyHistory(tbl, ls, newstate) ==
    /\ statels' = ls
    /\ IF newstate \in Range(newstates)
       THEN /\ states' = tbl
            /\ UNCHANGED <<newstates, seenmaxes>>
       ELSE /\ newstates' = Append(newstates, newstate)
            /\ seenmaxes' = seenmaxes \cup {newstate}
            /\ states' = [tbl EXCEPT ![newstate].history = <<>>]
    /\ idx' = idx + 1
    /\ pc' = IF idx = Len(startstates) THEN "loop" ELSE "start"
    /\ UNCHANGED <<maxls, oldstate, stopped>>

\* run, lines 187-192: find_maximal_state has returned newstate for the
\* starting state startstates[idx]; tbl and ls are self.states and
\* self.statels as it left them
StartReturn(tbl, ls, newstate) ==
    /\ statels' = ls
    /\ IF newstate \in Range(newstates)
       THEN /\ states' = tbl
            /\ UNCHANGED <<newstates, seenmaxes>>
       ELSE /\ newstates' = Append(newstates, newstate)
            /\ seenmaxes' = seenmaxes \cup {newstate}
            /\ states' = [tbl EXCEPT ![newstate].history =
                             tbl[startstates[idx]].maxing_actions]
    /\ idx' = idx + 1
    /\ pc' = IF idx = Len(startstates) THEN "loop" ELSE "start"
    /\ UNCHANGED <<maxls, oldstate, stopped>>

\* the edge recorded with the chain of the edge alone as the history of a
\* new maximal (not what run does)
RecordEdgeChainOnly(tbl, action, newstate, maxstate) ==
    LET oldnode == tbl[oldstate]
        aclist  == <<action>> \o tbl[newstate].maxing_actions
        seen    == maxstate \in seenmaxes
        tbl1    == [tbl EXCEPT
                      ![maxstate].ancestors =
                          @ \cup oldnode.ancestors \cup {oldstate},
                      ![maxstate].history = IF seen THEN @ ELSE aclist]
    IN  [tbl1 EXCEPT
           ![oldstate].children =
               Append(@, [aclist |-> aclist, state |-> maxstate]),
           ![maxstate].parents =
               Append(@, [aclist |-> aclist, state |-> oldstate])]

\* the edge recorded with the history written on every discovery (not what
\* run does)
RecordEdgeLastWins(tbl, action, newstate, maxstate) ==
    LET oldnode == tbl[oldstate]
        aclist  == <<action>> \o tbl[newstate].maxing_actions
        tbl1    == [tbl EXCEPT
                      ![maxstate].ancestors =
                          @ \cup oldnode.ancestors \cup {oldstate},
                      ![maxstate].history = oldnode.history \o aclist]
    IN  [tbl1 EXCEPT
           ![oldstate].children =
               Append(@, [aclist |-> aclist, state |-> maxstate]),
           ![maxstate].parents =
               Append(@, [aclist |-> aclist, state |-> oldstate])]

\* the edge recorded without its first action (not what run does)
RecordEdgeNoAction(tbl, action, newstate, maxstate) ==
    LET oldnode == tbl[oldstate]
        aclist  == tbl[newstate].maxing_actions
        seen    == maxstate \in seenmaxes
        tbl1    == [tbl EXCEPT
                      ![maxstate].ancestors =
                          @ \cup oldnode.ancestors \cup {oldstate},
                      ![maxstate].history =
                          IF seen THEN @ ELSE oldnode.history \o aclist]
    IN  [tbl1 EXCEPT
           ![oldstate].children =
               Append(@, [aclist |-> aclist, state |-> maxstate]),
           ![maxstate].parents =
               Append(@, [aclist |-> aclist, state |-> oldstate])]

\* run, lines 213-227: the edge oldstate -> maxstate is recorded
RecordEdge(tbl, action, newstate, maxstate) ==
    LET oldnode == tbl[oldstate]
        aclist  == <<action>> \o tbl[newstate].maxing_actions
        seen    == maxstate \in seenmaxes
        tbl1    == [tbl EXCEPT
                      ![maxstate].ancestors =
                          @ \cup oldnode.ancestors \cup {oldstate},
                      ![maxstate].history =
                          IF seen THEN @ ELSE oldnode.history \o aclist]
    IN  [tbl1 EXCEPT
           ![oldstate].children =
               Append(@, [aclist |-> aclist, state |-> maxstate]),
           ![maxstate].parents =
               Append(@, [aclist |-> aclist, state |-> oldstate])]

\* lines 208-227 with a new maximal left out of the queue (not what run
\* does)
ExpandReturnUnqueued(tbl, ls, newstate, maxstate) ==
    /\ statels' = ls
    /\ IF \/ StEq(maxstate, oldstate)
          \/ maxstate \in tbl[oldstate].ancestors
       THEN /\ states' = tbl
            /\ UNCHANGED <<seenmaxes, newstates>>
       ELSE /\ states' = RecordEdge(tbl, changeactions[idx], newstate,
                                    maxstate)
            /\ seenmaxes' = seenmaxes \cup {maxstate}
            /\ UNCHANGED newstates
    /\ idx' = idx + 1
    /\ pc' = IF idx = Len(changeactions) THEN "loop" ELSE "expand"
    /\ UNCHANGED <<maxls, oldstate, stopped>>

\* run, lines 208-227: find_maximal_state has returned maxstate for
\* newstate = changeactions[idx](oldstate)
ExpandReturn(tbl, ls, newstate, maxstate) ==
    /\ statels' = ls
    /\ IF \/ StEq(maxstate, oldstate)
          \/ maxstate \in tbl[oldstate].ancestors
       THEN /\ states' = tbl
            /\ UNCHANGED <<seenmaxes, newstates>>
       ELSE /\ states' = RecordEdge(tbl, changeactions[idx], newstate,
                                    maxstate)
            /\ seenmaxes' = seenmaxes \cup {maxstate}
            /\ newstates' = IF maxstate \in seenmaxes THEN newstates
                            ELSE Append(newstates, maxstate)
    /\ idx' = idx + 1
    /\ pc' = IF idx = Len(changeactions) THEN "loop" ELSE "expand"
    /\ UNCHANGED <<maxls, oldstate, stopped>>

\* find_maximal_state returns to the loop of run that called it
Return(from, tbl, ls, newstate, maximal) ==
    /\ IF from = "start" THEN StartReturn(tbl, ls, maximal)
       ELSE ExpandReturn(tbl, ls, newstate, maximal)
    /\ cstate' = EmptyDic
    /\ statechain' = <<>>
    /\ actchain' = <<>>
    /\ caller' = "none"
    /\ applied' = EmptyDic

\* find_maximal_state, lines 238-239: a state without a node enters the
\* while loop
Enter(from, state, newstate) ==
    /\ cstate' = state
    /\ statechain' = <<>>
    /\ actchain' = <<>>
    /\ caller' = from
    /\ applied' = newstate
    /\ pc' = "climb"
    /\ UNCHANGED <<states, statels, seenmaxes, maxls, newstates, oldstate,
                   idx, stopped>>

\* run, lines 185-186: one iteration of "for state in self.startstates", up
\* to the while loop of find_maximal_state (lines 234-236: a state that has
\* a node returns its maximal at once)
StartState ==
    /\ pc = "start"
    /\ LET state == startstates[idx]
       IN  IF state \in DOMAIN states
           THEN Return("start", states, statels, state, states[state].maximal)
           ELSE Enter("start", state, state)
    /\ UNCHANGED <<scen, startstates, actions, limit, noopt, improveactions,
                   changeactions, prev, verdict>>
    /\ UNCHANGED algvars
    /\ UNCHANGED shellvars

\* find_maximal_state, lines 240-285: one iteration of "while True"
Climb ==
    /\ pc = "climb"
    /\ LET tbl1   == Put(states, cstate, GraphNode(cstate))
           ls1    == Append(statels, cstate)
           chain1 == Append(statechain, cstate)
           k      == FirstImprovement(improveactions, 1, cstate)
       IN  IF k = 0
           THEN Return(caller,
                       [SetChain(tbl1, chain1, actchain, TRUE, cstate, <<>>)
                          EXCEPT ![cstate].is_maximal = TRUE],
                       ls1, applied, cstate)
           ELSE LET newstate == Call(ActionDef(improveactions[k]), cstate).st
                    acts1 == Append(actchain, improveactions[k])
                IN  IF newstate \in DOMAIN tbl1
                    THEN Return(caller,
                                SetChain(tbl1, chain1, acts1,
                                         tbl1[newstate].hasmax,
                                         tbl1[newstate].maximal,
                                         tbl1[newstate].maxing_actions),
                                ls1, applied, tbl1[newstate].maximal)
                    ELSE /\ states' = tbl1
                         /\ statels' = ls1
                         /\ cstate' = newstate
                         /\ statechain' = chain1
                         /\ actchain' = acts1
                         /\ pc' = IF Len(chain1) >= MaxClimb THEN "hung"
                                  ELSE "climb"
                         /\ UNCHANGED <<seenmaxes, maxls, newstates,
                                        oldstate, idx, caller, applied,
                                        stopped>>
    /\ UNCHANGED <<scen, startstates, actions, limit, noopt, improveactions,
                   changeactions, prev, verdict>>
    /\ UNCHANGED algvars
    /\ UNCHANGED shellvars

\* run, line 194: the queue is empty, run returns
Finish ==
    /\ pc = "loop"
    /\ newstates = <<>>
    /\ pc' = "done"
    /\ UNCHANGED <<scen, startstates, actions, limit, noopt, improveactions,
                   changeactions, states, statels, seenmaxes, maxls,
                   newstates, oldstate, idx, cstate, statechain, actchain,
                   caller, applied, stopped, prev, verdict>>
    /\ UNCHANGED algvars
    /\ UNCHANGED shellvars

\* run, lines 195-197: the limit is reached, run warns and returns
LimitStop ==
    /\ pc = "loop"
    /\ newstates # <<>>
    /\ Cardinality(seenmaxes) >= limit
    /\ stopped' = TRUE
    /\ pc' = "done"
    /\ UNCHANGED <<scen, startstates, actions, limit, noopt, improveactions,
                   changeactions, states, statels, seenmaxes, maxls,
                   newstates, oldstate, idx, cstate, statechain, actchain,
                   caller, applied, prev, verdict>>
    /\ UNCHANGED algvars
    /\ UNCHANGED shellvars

\* the last maximal of the queue is popped (not what run does)
PopLast ==
    /\ pc = "loop"
    /\ newstates # <<>>
    /\ Cardinality(seenmaxes) < limit
    /\ oldstate' = newstates[Len(newstates)]
    /\ newstates' = SubSeq(newstates, 1, Len(newstates) - 1)
    /\ maxls' = Append(maxls, newstates[Len(newstates)])
    /\ idx' = 1
    /\ pc' = IF changeactions = <<>> THEN "loop" ELSE "expand"
    /\ UNCHANGED <<scen, startstates, actions, limit, noopt, improveactions,
                   changeactions, states, statels, seenmaxes, cstate,
                   statechain, actchain, caller, applied, stopped, prev,
                   verdict>>
    /\ UNCHANGED algvars
    /\ UNCHANGED shellvars

\* run, lines 199-201: the next maximal is popped
Pop ==
    /\ pc = "loop"
    /\ newstates # <<>>
    /\ Cardinality(seenmaxes) < limit
    /\ oldstate' = Head(newstates)
    /\ newstates' = Tail(newstates)
    /\ maxls' = Append(maxls, Head(newstates))
    /\ idx' = 1
    /\ pc' = IF changeactions = <<>> THEN "loop" ELSE "expand"
    /\ UNCHANGED <<scen, startstates, actions, limit, noopt, improveactions,
                   changeactions, states, statels, seenmaxes, cstate,
                   statechain, actchain, caller, applied, stopped, prev,
                   verdict>>
    /\ UNCHANGED algvars
    /\ UNCHANGED shellvars

\* run, lines 203-207: one iteration of "for action in changeactions", up to
\* the while loop of find_maximal_state
Expand ==
    /\ pc = "expand"
    /\ LET newstate == Call(ActionDef(changeactions[idx]), oldstate)
       IN  IF ~newstate.ok
           THEN /\ idx' = idx + 1
                /\ pc' = IF idx = Len(changeactions) THEN "loop"
                         ELSE "expand"
                /\ UNCHANGED <<states, statels, seenmaxes, maxls, newstates,
                               oldstate, cstate, statechain, actchain,
                               caller, applied, stopped>>
           ELSE IF newstate.st \in DOMAIN states
           THEN Return("expand", states, statels, newstate.st,
                       states[newstate.st].maximal)
           ELSE Enter("expand", newstate.st, newstate.st)
    /\ UNCHANGED <<scen, startstates, actions, limit, noopt, improveactions,
                   changeactions, prev, verdict>>
    /\ UNCHANGED algvars
    /\ UNCHANGED shellvars

\* a second run on the Graph of the first, seenmaxes not being reset (not what
\* shell does)
RunAgainKeepsSeen ==
    /\ pc = "done"
    /\ ~prev.has
    /\ prev' = [has |-> TRUE, noopt |-> noopt, stopped |-> stopped,
                maxls |-> maxls, states |-> states]
    /\ noopt' \in BOOLEAN
    /\ improveactions' = <<>>
    /\ changeactions' = <<>>
    /\ states' = EmptyDic
    /\ statels' = <<>>
    /\ seenmaxes' = seenmaxes
    /\ maxls' = <<>>
    /\ newstates' = <<>>
    /\ oldstate' = EmptyDic
    /\ idx' = 1
    /\ pc' = "begin"
    /\ stopped' = FALSE
    /\ UNCHANGED <<scen, startstates, actions, limit, cstate, statechain,
                   actchain, caller, applied, verdict>>
    /\ UNCHANGED algvars
    /\ UNCHANGED shellvars

\* Graph(scenario, states).run(...) once more on the same starting states and
\* actions, the first Graph being kept in prev
RunAgain ==
    /\ pc = "done"
    /\ ~prev.has
    /\ prev' = [has |-> TRUE, noopt |-> noopt, stopped |-> stopped,
                maxls |-> maxls, states |-> states]
    /\ noopt' \in BOOLEAN
    /\ improveactions' = <<>>
    /\ changeactions' = <<>>
    /\ states' = EmptyDic
    /\ statels' = <<>>
    /\ seenmaxes' = {}
    /\ maxls' = <<>>
    /\ newstates' = <<>>
    /\ oldstate' = EmptyDic
    /\ idx' = 1
    /\ pc' = "begin"
    /\ stopped' = FALSE
    /\ UNCHANGED <<scen, startstates, actions, limit, cstate, statechain,
                   actchain, caller, applied, verdict>>
    /\ UNCHANGED algvars
    /\ UNCHANGED shellvars

\* test.verify(graph) for a test of the scenario
Verify ==
    /\ pc = "done"
    /\ ~prev.has
    /\ \E name \in TestNames(scen) :
          verdict' = [name |-> name, pass |-> verify(TestDef(name), states)]
    /\ pc' = "verified"
    /\ UNCHANGED <<scen, startstates, actions, limit, noopt, improveactions,
                   changeactions, states, statels, seenmaxes, maxls,
                   newstates, oldstate, idx, cstate, statechain, actchain,
                   caller, applied, stopped, prev>>
    /\ UNCHANGED algvars
    /\ UNCHANGED shellvars

Init == InitRun /\ IdleAlg /\ IdleShell

Next ==
    \/ Begin
    \/ StartState
    \/ Climb
    \/ Finish
    \/ LimitStop
    \/ Pop
    \/ Expand
    \/ RunAgain
    \/ Verify

Spec == Init /\ [][Next]_vars

(***************************************************************************)
(* Inputs of the algebra harness: the truthy values of each type and the   *)
(* canonical States over a set of keys.                                    *)
(***************************************************************************)
ValuesOf(key) ==
    CASE typemap(key) = "bool" -> {TRUE}
      [] typemap(key) = "int"  -> ((0 - 1) .. MaxInt) \ {0}
      [] typemap(key) = "str"  -> {"a", "b"}
      [] OTHER                 -> {{"x"}, {"y"}, {"x", "y"}}

RECURSIVE StatesOver(_)
StatesOver(keys) ==
    IF keys = {} THEN {EmptyDic}
    ELSE LET k == CHOOSE x \in keys : TRUE
             rest == StatesOver(keys \ {k})
         IN  rest \cup {DicSet(d, k, v) : d \in rest, v \in ValuesOf(k)}

\* One key of every type and sense.
AlgKeys == {"lamp", "_curse", "gold", "_debt", "room", "_mood", "bag", "_wounds"}
KeyPairs == {K \in SUBSET AlgKeys : Cardinality(K) = 2}

NoOut == [op |-> "none", flag |-> FALSE, st |-> EmptyDic]

(***************************************************************************)
(* The algebra harness: two or three States of one scenario are drawn, and *)
(* the comparison and the meet are applied to them.                        *)
(***************************************************************************)
InitAlg ==
    /\ \E K \in KeyPairs :
          /\ A \in StatesOver(K)
          /\ B \in StatesOver(K)
          /\ C \in StatesOver(K)
    /\ act = "none"
    /\ out = NoOut
    /\ addval = NoVal
    /\ trail = <<>>
    /\ IdleRun
    /\ IdleShell

\* A.contains(B)
DoContains ==
    /\ out.op = "none"
    /\ out' = [op |-> "contains", flag |-> contains(A, B), st |-> EmptyDic]
    /\ UNCHANGED <<A, B, C, act, addval, trail>>
    /\ UNCHANGED runvars
    /\ UNCHANGED shellvars

\* A & B
DoAnd ==
    /\ out.op = "none"
    /\ out' = [op |-> "and", flag |-> FALSE, st |-> StAnd(A, B)]
    /\ UNCHANGED <<A, B, C, act, addval, trail>>
    /\ UNCHANGED runvars
    /\ UNCHANGED shellvars

\* (A & B) & C
DoAndAnd ==
    /\ out.op = "and"
    /\ out' = [op |-> "andand", flag |-> FALSE, st |-> StAnd(out.st, C)]
    /\ UNCHANGED <<A, B, C, act, addval, trail>>
    /\ UNCHANGED runvars
    /\ UNCHANGED shellvars

NextAlg == DoContains \/ DoAnd \/ DoAndAnd

SpecAlg == InitAlg /\ [][NextAlg]_vars

(***************************************************************************)
(* The action harness: a declared action is called on a State over the     *)
(* qualities it names.                                                     *)
(***************************************************************************)
InitAct ==
    /\ act \in AllActionNames
    /\ A \in StatesOver(Touches(ActionDef(act)))
    /\ B = EmptyDic
    /\ C = EmptyDic
    /\ out = NoOut
    /\ addval = NoVal
    /\ trail = <<>>
    /\ IdleRun
    /\ IdleShell

\* action(A)
DoCall ==
    /\ out.op = "none"
    /\ LET r == Call(ActionDef(act), A)
       IN  out' = [op |-> "call", flag |-> r.ok, st |-> r.st]
    /\ UNCHANGED <<A, B, C, act, addval, trail>>
    /\ UNCHANGED runvars
    /\ UNCHANGED shellvars

NextAct == DoCall

SpecAct == InitAct /\ [][NextAct]_vars

(***************************************************************************)
(* The showlist harness: the trumped set of a result list made of the      *)
(* operand States, in any order.                                           *)
(***************************************************************************)
\* The lists of distinct states of S, of at most MaxList states.
ListsOf(S) ==
    {ls \in UNION {[1 .. n -> S] : n \in 0 .. MaxList} :
        \A i, j \in DOMAIN ls : i # j => ls[i] # ls[j]}

\* showlist on a result list
DoShowlist ==
    /\ out.op = "none"
    /\ \E outls \in ListsOf({A, B, C}) :
          out' = [op |-> "showlist", flag |-> ~Trumped(outls).none,
                  st |-> [outls |-> outls, trumped |-> Trumped(outls).set]]
    /\ UNCHANGED <<A, B, C, act, addval, trail>>
    /\ UNCHANGED runvars
    /\ UNCHANGED shellvars

NextShow == DoShowlist

SpecShow == InitAlg /\ [][NextShow]_vars

(***************************************************************************)
(* Properties of the State algebra (specification SpecAlg).                *)
(***************************************************************************)
\* The value of a key, an absent key read as the falsy value of its type.
ValueOr(S, key) ==
    IF key \in DOMAIN S THEN S[key]
    ELSE CASE typemap(key) = "bool" -> FALSE
           [] typemap(key) = "int"  -> 0
           [] typemap(key) = "str"  -> ""
           [] OTHER                 -> {}

\* a is at least b, for two values of key's type.
Dominates(key, a, b) ==
    CASE typemap(key) = "bool" -> (b => a)
      [] typemap(key) = "int"  -> a >= b
      [] typemap(key) = "str"  -> (a = b \/ b = "")
      [] OTHER                 -> b \subseteq a

\* Y <= X in the per-key order of the schema.
PerKeyOrder(X, Y) ==
    \A key \in AllKeys :
       IF sensemap(key)
       THEN Dominates(key, ValueOr(X, key), ValueOr(Y, key))
       ELSE Dominates(key, ValueOr(Y, key), ValueOr(X, key))

\* C3: A.contains(B) is true exactly when, an absent key read as the falsy
\* value of its type, A's value is at least B's for every positive-sense key
\* and A's burden does not exceed B's for every negative-sense key; integers
\* may be negative.
C3_ContainsIsPerKeyOrder ==
    out.op = "contains" => (out.flag <=> PerKeyOrder(A, B))

\* C4: A <= B and B <= A hold together exactly when A == B, so A < B and
\* B < A never hold together.
C4_Antisymmetric ==
    out.op = "contains" =>
        /\ (out.flag /\ contains(B, A)) <=> StEq(A, B)
        /\ ~(StLt(A, B) /\ StLt(B, A))

C4_Witness ==
    /\ out.op = "contains"
    /\ out.flag
    /\ contains(B, A)
    /\ \E key \in DOMAIN A : ~sensemap(key)

\* Some negative-sense string quality has different non-empty values in X, Y.
NegStrClash(X, Y) ==
    \E key \in DOMAIN X \cap DOMAIN Y :
       /\ ~sensemap(key)
       /\ typemap(key) = "str"
       /\ X[key] # Y[key]

\* C5 as claimed: the meet is a lower bound of its operands, for qualities of
\* any type and either sense.
C5_MeetLowerBoundAnyKey ==
    out.op = "and" => (StLe(out.st, A) /\ StLe(out.st, B))

\* C5 amended: (A & B) <= A and (A & B) <= B unless a negative-sense string
\* quality has different non-empty values in A and B.
C5_MeetLowerBound ==
    (out.op = "and" /\ ~NegStrClash(A, B)) =>
        (StLe(out.st, A) /\ StLe(out.st, B))

C5_Witness ==
    /\ out.op = "and"
    /\ ~NegStrClash(A, B)
    /\ A # B
    /\ out.st # A
    /\ out.st # B
    /\ out.st # EmptyDic

\* C6 as claimed: the meet is commutative, associative and idempotent, for
\* qualities of any type and either sense.
C6_MeetLawsAnyKey ==
    out.op = "andand" =>
        /\ StAnd(A, B) = StAnd(B, A)
        /\ out.st = StAnd(A, StAnd(B, C))
        /\ StAnd(A, A) = A

\* C6 amended: A & B == B & A and A & A == A for all States, and
\* (A & B) & C == A & (B & C) unless a negative-sense string quality has
\* different non-empty values in two of A, B, C.
C6_MeetLaws ==
    out.op = "andand" =>
        /\ StAnd(A, B) = StAnd(B, A)
        /\ StAnd(A, A) = A
        /\ (~NegStrClash(A, B) /\ ~NegStrClash(B, C) /\ ~NegStrClash(A, C))
              => out.st = StAnd(A, StAnd(B, C))

C6_Witness ==
    /\ out.op = "andand"
    /\ A # B /\ B # C /\ A # C
    /\ out.st # EmptyDic
    /\ out.st # A /\ out.st # B /\ out.st # C

(***************************************************************************)
(* Properties of the equivalence hints (specification SpecAct).            *)
(***************************************************************************)
Called(hint) ==
    /\ out.op = "call"
    /\ out.flag
    /\ ActionDef(act).equivtype = hint

\* C7: an action whose hint is IMPROVE yields, on every state S where it
\* yields a state S', a state S' > S (strictly).
C7_ImproveIsStrict ==
    Called(EQUIV_IMPROVE) => StGt(out.st, A)

\* C8: an action whose hint is LOSS yields, on every state S where it yields
\* a state S', a state for which S' >= S does not hold.
C8_LossIsNotAbove ==
    Called(EQUIV_LOSS) => ~StGe(out.st, A)

\* C9: an action whose hint is SAME is a pure filter: on every state S it is
\* not applicable or yields exactly S.
C9_SameIsFilter ==
    (out.op = "call" /\ ActionDef(act).equivtype = EQUIV_SAME) =>
        (out.flag => out.st = A)

C9_Witness ==
    /\ Called(EQUIV_SAME)
    /\ ActionDef(act).form = "Has"
    /\ A # EmptyDic
    /\ out.st = A

(***************************************************************************)
(* Properties of the search and of Test.verify (specification Spec).       *)
(***************************************************************************)
\* One application of every action of acts to every state of S.
Successors(acts, S) ==
    {Call(ActionDef(acts[x[1]]), x[2]).st :
        x \in {y \in (DOMAIN acts) \X S :
                  Call(ActionDef(acts[y[1]]), y[2]).ok}}

\* The states reachable from S by finite sequences of applicable actions.
RECURSIVE ReachFrom(_, _)
ReachFrom(acts, S) ==
    LET next == S \cup Successors(acts, S)
    IN  IF next = S THEN S ELSE ReachFrom(acts, next)

Reachable == ReachFrom(actions, Range(startstates))

\* run has returned with an empty queue
Completed == pc = "done" /\ ~stopped

\* C1: when run ends with an empty queue, every state reachable from a
\* starting state by applicable actions is <= some state of maxls.
C1_Coverage ==
    Completed =>
        \A s \in Reachable : \E i \in DOMAIN maxls : StLe(s, maxls[i])

\* C2: run with the declared hints and run with the hints ignored, on the
\* same starting states and actions, compute the same set of maximal states.
C2_HintsAdvisory ==
    (Completed /\ prev.has /\ ~prev.stopped /\ prev.noopt # noopt) =>
        Range(maxls) = Range(prev.maxls)

\* The states of the node table that have every gets quality, satisfy every
\* can predicate and have every includes action in their history.
SigmaPrime(test, tbl) ==
    {s \in DOMAIN tbl :
        /\ \A q \in Range(test.getqualities) : q \in DOMAIN s
        /\ \A a \in Range(test.canactions) : Call(a, s).ok
        /\ \A a \in Range(test.includeactions) : a \in Range(tbl[s].history)}

\* A getsnot quality, a cannot predicate or an excludes action holds of s.
NegativeHit(test, tbl, s) ==
    \/ \E q \in Range(test.getnotqualities) : q \in DOMAIN s
    \/ \E a \in Range(test.cannotactions) : Call(a, s).ok
    \/ \E a \in Range(test.excludeactions) : a \in Range(tbl[s].history)

\* C10: Test.verify passes exactly when Sigma', the states of the node table
\* that meet every gets, can and includes criterion together, is not empty
\* and no state of Sigma' meets a getsnot, cannot or excludes criterion.
C10_VerifyPassIff ==
    pc = "verified" =>
        LET test == TestDef(verdict.name)
        IN  verdict.pass <=>
               /\ SigmaPrime(test, states) # {}
               /\ \A s \in SigmaPrime(test, states) :
                     ~NegativeHit(test, states, s)

C10_Witness ==
    /\ pc = "verified"
    /\ verdict.pass
    /\ LET test == TestDef(verdict.name)
       IN  /\ SigmaPrime(test, states) # DOMAIN states
           /\ \E s \in DOMAIN states : NegativeHit(test, states, s)

(***************************************************************************)
(* The tests of TestScenario, run as shell runs them.                      *)
(***************************************************************************)
\* Test.startstates(): the start states of the test, or the scenario's Start
TestStartstates(test) ==
    IF test.startstatelist = <<>> THEN <<StateDef("Start")>>
    ELSE test.startstatelist

\* Test.actions(), sorted by name as shell sorts them
TestActions(cls, test) ==
    LET Kept(name) == name \notin test.blockactions
    IN  SelectSeq(ActionNames(cls), Kept)

BuiltinTests == {"Test1", "Test2", "Test3", "Test4", "Test5", "Test6",
                 "Test7"}

\* The Graph under verification is the one shell builds for the test.
RunAsShell(name) ==
    /\ startstates = TestStartstates(TestDef(name))
    /\ actions = TestActions(scen, TestDef(name))
    /\ limit = DefaultLimit

\* C11: each of Test1..Test7 of TestScenario passes when the search is run
\* from the test's starting states with its non-blocked actions under the
\* default limit and the test is then verified.
C11_BuiltinTestsPass ==
    (pc = "verified" /\ scen = "TestScenario"
       /\ verdict.name \in BuiltinTests /\ RunAsShell(verdict.name))
        => verdict.pass

C11_Witness ==
    /\ pc = "verified"
    /\ scen = "TestScenario"
    /\ verdict.name = "Test6"
    /\ RunAsShell("Test6")
    /\ verdict.pass
    /\ Len(maxls) > 1

(***************************************************************************)
(* Properties of the recorded edges, ancestors and maximals.               *)
(***************************************************************************)
\* The actions of a chain applied in order from position i on.
RECURSIVE Replay(_, _, _)
Replay(names, i, state) ==
    IF i > Len(names) THEN Yield(state)
    ELSE LET r == Call(ActionDef(names[i]), state)
         IN  IF ~r.ok THEN Blocked ELSE Replay(names, i + 1, r.st)

\* run has returned, with an empty queue or stopped by the limit
Returned == pc = "done"

\* C12: after a run, for every edge (chain, M2) of children(M), the actions
\* of chain applied to M in order are all applicable and end in a state
\* whose maximal is M2.
C12_EdgesReplayable ==
    Returned =>
        \A M \in DOMAIN states :
           \A j \in DOMAIN states[M].children :
              LET edge == states[M].children[j]
                  r    == Replay(edge.aclist, 1, M)
              IN  /\ r.ok
                  /\ r.st \in DOMAIN states
                  /\ states[r.st].hasmax
                  /\ states[r.st].maximal = edge.state

C12_Witness ==
    /\ Returned
    /\ \E M \in DOMAIN states :
          \E j \in DOMAIN states[M].children :
             /\ Len(states[M].children[j].aclist) >= 2
             /\ Replay(states[M].children[j].aclist, 1, M).st =
                   states[M].children[j].state

\* The recorded edges M -> M2 of the Graph.
Edges ==
    {<<M, states[M].children[j].state>> :
        <<M, j>> \in UNION {{<<N, k>> : k \in DOMAIN states[N].children} :
                               N \in DOMAIN states}}

\* C13: after a run there is no recorded edge M -> M2 with M2 in the final
\* ancestors(M).
C13_NoEdgeIntoAncestor ==
    Returned => \A e \in Edges : e[2] \notin states[e[1]].ancestors

\* The states that have a path of edges of E into a state of S, S included.
RECURSIVE Upstream(_, _)
Upstream(E, S) ==
    LET next == S \cup {e[1] : e \in {f \in E : f[2] \in S}}
    IN  IF next = S THEN S ELSE Upstream(E, next)

\* The maximals from which M is reached through recorded edges.
ReachedFrom(M) ==
    Upstream(Edges, {e[1] : e \in {f \in Edges : f[2] = M}}) \ {M}

\* C14: after a run, ancestors(M) contains every maximal from which M is
\* reached through recorded edges: every direct parent and, transitively,
\* every maximal with a path of recorded edges to M.
C14_AncestorsComplete ==
    Returned =>
        \A M \in DOMAIN states : ReachedFrom(M) \subseteq states[M].ancestors

\* The improve-action set: the actions whose hint is not LOSS.
ImproveSet == Range(ImproveFilter(actions))

\* C15 as claimed: after a run, every improve action is not applicable to a
\* state M of the maximal list or yields a state <= M.
C15_MaximalsClosedBelow ==
    Returned =>
        \A i \in DOMAIN maxls : \A name \in ImproveSet :
           LET r == Call(ActionDef(name), maxls[i])
           IN  r.ok => StLe(r.st, maxls[i])

\* C15 amended: after a run, every improve action is not applicable to a
\* state M of the maximal list or yields a state that is not strictly above
\* M (it may be incomparable with M).
C15_MaximalsNotImprovable ==
    Returned =>
        \A i \in DOMAIN maxls : \A name \in ImproveSet :
           LET r == Call(ActionDef(name), maxls[i])
           IN  r.ok => ~StGt(r.st, maxls[i])

C15_Witness ==
    /\ Returned
    /\ \E i \in DOMAIN maxls : \E name \in ImproveSet :
          LET r == Call(ActionDef(name), maxls[i])
          IN  /\ r.ok
              /\ ~StLe(r.st, maxls[i])
              /\ ~StGt(r.st, maxls[i])

\* find_maximal_state is not under way
NotClimbing == pc \in {"start", "loop", "expand", "done", "verified"}

\* C16: whenever find_maximal_state has returned, every state of the node
\* table has a maximal assigned, that maximal is in the node table, and it
\* is its own maximal.
C16_MaximalAssigned ==
    NotClimbing =>
        \A s \in DOMAIN states :
           /\ states[s].hasmax
           /\ states[s].maximal \in DOMAIN states
           /\ states[states[s].maximal].hasmax
           /\ states[states[s].maximal].maximal = states[s].maximal

C16_Witness ==
    /\ pc = "expand"
    /\ \E s \in DOMAIN states :
          /\ states[s].maximal # s
          /\ Len(states[s].maxing_actions) >= 2

(***************************************************************************)
(* Properties of the limit and of repeated runs.                           *)
(***************************************************************************)
\* C17: at no point of run does the number of maximal states recorded as
\* seen exceed the limit (limit >= 1).
C17_LimitBoundsSeen ==
    pc # "idle" => Cardinality(seenmaxes) <= limit

\* C18: with limit 1 and one starting state, run returns with exactly one
\* state in the maximal list, the maximal of the starting state.
C18_LimitOneKeepsOne ==
    (Returned /\ limit = 1 /\ Len(startstates) = 1) =>
        maxls = <<states[startstates[1]].maximal>>

Dominated(ls) ==
    {s \in Range(ls) : \E t \in Range(ls) : StLt(s, t)}

\* C20: for a result list of at most 20 states, in any order, the trumped
\* set of showlist is exactly the set of its states that some other state of
\* the list strictly dominates, and a non-empty list keeps a state that is
\* not trumped.
C20_TrumpedIsDominated ==
    out.op = "showlist" =>
        /\ out.flag
        /\ out.st.trumped = Dominated(out.st.outls)
        /\ out.st.outls # <<>> =>
              Range(out.st.outls) \ out.st.trumped # {}

C20_Witness ==
    /\ out.op = "showlist"
    /\ Len(out.st.outls) = 3
    /\ StLt(out.st.outls[1], out.st.outls[2])
    /\ StLt(out.st.outls[2], out.st.outls[3])
    /\ Cardinality(out.st.trumped) = 2

(***************************************************************************)
(* State.addquality.  A value handed to it is tagged with its Python type: *)
(* [typ |-> "bool", v |-> TRUE], [typ |-> "int", v |-> 1], [typ |-> "str", *)
(* v |-> "a"].                                                             *)
(***************************************************************************)
\* str(n) for a small integer
Digit(n) ==
    CASE n = 0 -> "0" [] n = 1 -> "1" [] n = 2 -> "2" [] n = 3 -> "3"
      [] n = 4 -> "4" [] n = 5 -> "5" [] n = 6 -> "6" [] n = 7 -> "7"
      [] n = 8 -> "8" [] OTHER -> "9"

IntStr(n) == IF n < 0 THEN "-" \o Digit(0 - n) ELSE Digit(n)

\* The strings int() accepts, among those the model hands to addquality.
Numerals == {"0", "1", "2"}

\* bool(v)
ToBool(x) ==
    CASE x.typ = "bool" -> x.v
      [] x.typ = "int"  -> x.v # 0
      [] OTHER          -> x.v # ""

\* int(v): ok is FALSE when int raises ValueError
ToInt(x) ==
    CASE x.typ = "bool" -> [ok |-> TRUE, v |-> IF x.v THEN 1 ELSE 0]
      [] x.typ = "int"  -> [ok |-> TRUE, v |-> x.v]
      [] OTHER          ->
            IF x.v \in Numerals
            THEN [ok |-> TRUE,
                  v |-> CHOOSE n \in 0 .. 2 : Digit(n) = x.v]
            ELSE [ok |-> FALSE, v |-> 0]

\* str(v)
ToStr(x) ==
    CASE x.typ = "bool" -> IF x.v THEN "True" ELSE "False"
      [] x.typ = "int"  -> IntStr(x.v)
      [] OTHER          -> x.v

\* State.addquality(key, val); Blocked when it raises: KeyError for a key
\* outside the schema, ValueError from int(val), TypeError from set[val]
addquality(self, key, x) ==
    IF key \notin AllKeys THEN Blocked
    ELSE CASE typemap(key) = "bool" ->
                 Yield(NewState(DicSet(self, key, ToBool(x))))
           [] typemap(key) = "int" ->
                 IF ToInt(x).ok
                 THEN Yield(NewState(DicSet(self, key, ToInt(x).v)))
                 ELSE Blocked
           [] typemap(key) = "str" ->
                 Yield(NewState(DicSet(self, key, ToStr(x))))
           [] OTHER -> Blocked

\* The values handed to addquality.
AddValues ==
    {[typ |-> "bool", v |-> b] : b \in BOOLEAN}
    \cup {[typ |-> "int", v |-> n] : n \in (0 - 1) .. MaxInt}
    \cup {[typ |-> "str", v |-> x] : x \in {"", "a", "1"}}

\* The keys handed to addquality: those of the schema and one outside it.
AddKeys == AlgKeys \cup {"ghost"}

(***************************************************************************)
(* The addquality harness.                                                 *)
(***************************************************************************)
InitAdd ==
    /\ \E K \in KeyPairs : A \in StatesOver(K)
    /\ B = EmptyDic
    /\ C = EmptyDic
    /\ act \in AddKeys
    /\ addval \in AddValues
    /\ trail = <<>>
    /\ out = NoOut
    /\ IdleRun
    /\ IdleShell

\* A.addquality(act, addval)
DoAddquality ==
    /\ out.op = "none"
    /\ LET r == addquality(A, act, addval)
       IN  out' = [op |-> "addquality", flag |-> r.ok, st |-> r.st]
    /\ UNCHANGED <<A, B, C, act, addval, trail>>
    /\ UNCHANGED runvars
    /\ UNCHANGED shellvars

NextAdd == DoAddquality

SpecAdd == InitAdd /\ [][NextAdd]_vars

\* The value of key after addquality as claimed: val coerced to the key's
\* type, or the existing set united with {val}.
Coerced(S, key, x) ==
    CASE typemap(key) = "bool" -> ToBool(x)
      [] typemap(key) = "int"  -> ToInt(x).v
      [] typemap(key) = "str"  -> ToStr(x)
      [] OTHER                 -> GetSet(S, key) \cup {ToStr(x)}

\* C23: addquality(A, k, v) returns a new canonical state equal to A except
\* that k maps to v coerced to k's type (for a set-typed key, the existing
\* set united with {v}), and fails only when k is not in the schema.
C23_AddqualityCoerces ==
    out.op = "addquality" =>
        /\ out.flag <=> act \in AllKeys
        /\ out.flag =>
              out.st = canonize(DicSet(A, act, Coerced(A, act, addval)))

(***************************************************************************)
(* shell(TestScenario), the call at the end of the file.  opts is the      *)
(* parsed command line.  shpc is the position in shell: "start" (called),  *)
(* "tests" (the loop over runtests), "run" (the display path), "raised"    *)
(* (left by an exception), "returned".                                     *)
(***************************************************************************)
\* the scenario of the call shell(TestScenario)
ShellScenario == "TestScenario"

\* --startstate and --startwith as lines 1178-1183 turn them into the list
\* of starting states
ShellStartstates ==
    {<<StateDef("Start")>>, <<StateDef("Empty")>>,
     <<addquality(StateDef("Start"), "lamp",
                  [typ |-> "bool", v |-> TRUE]).st>>}

\* -t/-T as parse_tests and the sort of line 1193 leave them
ShellRuntests ==
    {<<>>, <<"Test1">>, <<"Test5", "Test6">>,
     <<"Test1", "Test2", "Test3", "Test4", "Test5", "Test6", "Test7">>}

ShellOptions ==
    [runtests : ShellRuntests,
     blockactions : {{}, {"FeedSelf"}},
     withholdactions : {{}, {"KitchenCook"}},
     startstates : ShellStartstates,
     genlimit : {1, DefaultLimit},
     noopt : BOOLEAN]

InitShell ==
    /\ IdleAlg
    /\ scen = ShellScenario
    /\ actions = <<>>
    /\ startstates = <<>>
    /\ limit = DefaultLimit
    /\ noopt = FALSE
    /\ improveactions = <<>>
    /\ changeactions = <<>>
    /\ states = EmptyDic
    /\ statels = <<>>
    /\ seenmaxes = {}
    /\ maxls = <<>>
    /\ newstates = <<>>
    /\ oldstate = EmptyDic
    /\ idx = 1
    /\ cstate = EmptyDic
    /\ statechain = <<>>
    /\ actchain = <<>>
    /\ caller = "none"
    /\ applied = EmptyDic
    /\ pc = "idle"
    /\ stopped = FALSE
    /\ prev = NoPrev
    /\ verdict = NoVerdict
    /\ global_scenario = None
    /\ shpc = "start"
    /\ opts \in ShellOptions
    /\ tix = 1
    /\ errors = 0

\* Graph(scenario, startls) followed by the call of run with acts
NewGraph(startls, acts) ==
    /\ startstates' = startls
    /\ actions' = acts
    /\ limit' = opts.genlimit
    /\ noopt' = opts.noopt
    /\ improveactions' = <<>>
    /\ changeactions' = <<>>
    /\ states' = EmptyDic
    /\ statels' = <<>>
    /\ seenmaxes' = {}
    /\ maxls' = <<>>
    /\ newstates' = <<>>
    /\ oldstate' = EmptyDic
    /\ idx' = 1
    /\ stopped' = FALSE
    /\ pc' = "begin"
    /\ UNCHANGED <<scen, cstate, statechain, actchain, caller, applied, prev>>

\* the frame of a shell step that does not touch the graph
SameGraph ==
    UNCHANGED <<scen, startstates, actions, limit, noopt, improveactions,
                changeactions, states, statels, seenmaxes, maxls, newstates,
                oldstate, idx, cstate, statechain, actchain, caller, applied,
                stopped, prev>>

\* shell, lines 1107-1194
ShellStart ==
    /\ shpc = "start"
    /\ global_scenario' = scen
    /\ shpc' = IF opts.runtests # <<>> THEN "tests" ELSE "run"
    /\ tix' = 1
    /\ errors' = 0
    /\ SameGraph
    /\ UNCHANGED <<pc, verdict, opts>>
    /\ UNCHANGED algvars

\* shell, lines 1195-1199: the graph of the next test is built and run
ShellTestSetup ==
    /\ shpc = "tests"
    /\ pc = "idle"
    /\ tix <= Len(opts.runtests)
    /\ LET test == TestDef(opts.runtests[tix])
       IN  NewGraph(TestStartstates(test), TestActions(scen, test))
    /\ UNCHANGED verdict
    /\ UNCHANGED shellvars
    /\ UNCHANGED algvars

\* shell, lines 1200-1204: run has returned, the test is verified
ShellTestVerify ==
    /\ shpc = "tests"
    /\ pc = "done"
    /\ LET name == opts.runtests[tix]
           pass == verify(TestDef(name), states)
       IN  /\ verdict' = [name |-> name, pass |-> pass]
           /\ errors' = IF pass THEN errors ELSE errors + 1
    /\ tix' = tix + 1
    /\ pc' = "idle"
    /\ SameGraph
    /\ UNCHANGED <<global_scenario, shpc, opts>>
    /\ UNCHANGED algvars

\* shell, lines 1205-1207: the return that ends test mode
ShellTestReturn ==
    /\ shpc = "tests"
    /\ pc = "idle"
    /\ tix > Len(opts.runtests)
    /\ shpc' = "returned"
    /\ SameGraph
    /\ UNCHANGED <<pc, verdict, global_scenario, opts, tix, errors>>
    /\ UNCHANGED algvars

\* shell, lines 1209-1217: the first graph is built and run without the
\* blocked and the withheld actions
ShellRunSetup ==
    /\ shpc = "run"
    /\ pc = "idle"
    /\ LET blocked == opts.blockactions \cup opts.withholdactions
           Kept(name) == name \notin blocked
       IN  NewGraph(opts.startstates, SelectSeq(ActionNames(scen), Kept))
    /\ UNCHANGED verdict
    /\ UNCHANGED shellvars
    /\ UNCHANGED algvars

\* shell, lines 1218-1219: graph.allstates is an attribute Graph does not
\* have; the AttributeError leaves shell
ShellWithhold ==
    /\ shpc = "run"
    /\ pc = "done"
    /\ opts.withholdactions # {}
    /\ shpc' = "raised"
    /\ SameGraph
    /\ UNCHANGED <<pc, verdict, global_scenario, opts, tix, errors>>
    /\ UNCHANGED algvars

\* shell, lines 1234-1245: the graph is displayed and global_scenario is
\* cleared
ShellDisplay ==
    /\ shpc = "run"
    /\ pc = "done"
    /\ opts.withholdactions = {}
    /\ global_scenario' = None
    /\ shpc' = "returned"
    /\ SameGraph
    /\ UNCHANGED <<pc, verdict, opts, tix, errors>>
    /\ UNCHANGED algvars

NextShell ==
    \/ ShellStart
    \/ ShellTestSetup
    \/ ShellRunSetup
    \/ Begin
    \/ StartState
    \/ Climb
    \/ Finish
    \/ LimitStop
    \/ Pop
    \/ Expand
    \/ ShellTestVerify
    \/ ShellTestReturn
    \/ ShellWithhold
    \/ ShellDisplay

SpecShell == InitShell /\ [][NextShell]_vars

\* C21: global_scenario is the scenario while shell runs and is None
\* whenever shell has returned, on the display path and on the test-mode
\* path alike.
C21_GlobalScenarioCleared ==
    /\ shpc \in {"tests", "run"} => global_scenario = scen
    /\ shpc = "returned" => global_scenario = None

\* C22: with withheld actions the second run is always reached: no error
\* leaves shell between the first run and the second.
C22_SecondRunReached ==
    (opts.withholdactions # {} /\ opts.runtests = <<>>) => shpc # "raised"

(***************************************************************************)
(* The sequence harness: actions are called one after another, each on the *)
(* State the last applicable one returned.  B is the State the last call   *)
(* was made on, A the current State, trail the applicable calls so far.    *)
(***************************************************************************)
\* The longest sequence of applicable calls.
MaxSteps == 3

\* The declared actions called in sequence: the three Once actions, and
\* actions that change other qualities or drop them all.
SeqActions == {"Pray", "Vow", "UseToken", "Forget", "Taint", "Purge",
               "Douse"}

SeqKeys == {"_did_pray", "token", "_hex", "lamp"}

InitSeq ==
    /\ A \in StatesOver(SeqKeys)
    /\ B = EmptyDic
    /\ C = EmptyDic
    /\ act = "none"
    /\ out = NoOut
    /\ addval = NoVal
    /\ trail = <<>>
    /\ IdleRun
    /\ IdleShell

\* newstate = action(state); the sequence goes on from newstate unless the
\* action was not applicable
DoStep ==
    /\ Len(trail) < MaxSteps
    /\ \E name \in SeqActions :
          LET r == Call(ActionDef(name), A)
          IN  /\ act' = name
              /\ out' = [op |-> "call", flag |-> r.ok, st |-> r.st]
              /\ B' = A
              /\ A' = IF r.ok THEN r.st ELSE A
              /\ trail' = IF r.ok THEN Append(trail, name) ELSE trail
    /\ UNCHANGED <<C, addval>>
    /\ UNCHANGED runvars
    /\ UNCHANGED shellvars

NextSeq == DoStep

SpecSeq == InitSeq /\ [][NextSeq]_vars

\* The action, or one of its subactions, is a Reset, or a Lose or Set that
\* names key.
RECURSIVE RemovesKey(_, _)
RemovesKey(action, key) ==
    CASE action.form = "Reset" -> TRUE
      [] action.form = "Lose"  -> key \in action.keys
      [] action.form = "Set"   -> key \in DOMAIN action.params
      [] action.form = "Once"  ->
            action.wraps /\ RemovesKey(action.action, key)
      [] action.form \in {"Chain", "Choice"} ->
            \E i \in DOMAIN action.actions :
                RemovesKey(action.actions[i], key)
      [] OTHER -> FALSE

\* The last call was of a Once action for which keyed(its flag key) holds.
CalledOnce(keyed(_)) ==
    /\ out.op = "call"
    /\ act \in SeqActions
    /\ ActionDef(act).form = "Once"
    /\ keyed(ActionDef(act).key)

\* What the last call, of a Once, returned is what the rule of the flag
\* says: not-applicable on a State that has the flag key; else the flag is
\* set and the wrapped action, if any, is applied to the flagged State.
FlagRule ==
    LET once    == ActionDef(act)
        flagged == NewState(DicSet(B, once.key, TRUE))
    IN  IF once.key \in DOMAIN B THEN ~out.flag
        ELSE IF ~once.wraps THEN out.flag /\ out.st = flagged
        ELSE /\ out.flag = Call(once.action, flagged).ok
             /\ out.flag => out.st = Call(once.action, flagged).st

\* Between two applicable calls of the same Once action for which
\* keyed(its flag key) holds, an action that removes the flag key was
\* applied.
OnceAtMostOnce(keyed(_)) ==
    \A i, j \in DOMAIN trail :
        (/\ i < j
         /\ trail[i] = trail[j]
         /\ ActionDef(trail[i]).form = "Once"
         /\ keyed(ActionDef(trail[i]).key))
        => \E k \in i .. (j - 1) :
              RemovesKey(ActionDef(trail[k]), ActionDef(trail[i]).key)

AnyKey(key) == TRUE
NegativeKey(key) == ~sensemap(key)
PositiveKey(key) == sensemap(key)

\* C24, as stated: every Once follows the rule of the flag, and along a
\* sequence of actions none of which removes the flag key a Once succeeds at
\* most once.
C24_OnceAnyKey ==
    /\ CalledOnce(AnyKey) => FlagRule
    /\ OnceAtMostOnce(AnyKey)

\* C24: a Once whose flag key has negative sense (every generated _did_ key
\* has) follows the rule of the flag, and succeeds at most once along a
\* sequence of actions none of which removes the flag key; a Once on a
\* positive-sense key is not applicable on a State without the key and
\* otherwise removes it.
C24_OnceNegativeKey ==
    /\ CalledOnce(NegativeKey) => FlagRule
    /\ OnceAtMostOnce(NegativeKey)
    /\ CalledOnce(PositiveKey) =>
          IF ActionDef(act).key \notin DOMAIN B THEN ~out.flag
          ELSE /\ out.flag
               /\ out.st = NewState(DicPop(B, {ActionDef(act).key}))

\* Vow has succeeded once and was then called again.
C24_Witness ==
    /\ CalledOnce(NegativeKey)
    /\ ActionDef(act).wraps
    /\ act \in Range(trail)
    /\ ~out.flag

\* The hint the table of forms gives Set for a mapping.
SetHintOfTable(params) ==
    LET bools    == \A key \in DOMAIN params : typemap(key) = "bool"
        Gain(key) == sensemap(key) = params[key]
    IN  IF bools /\ \A key \in DOMAIN params : Gain(key)
        THEN EQUIV_IMPROVE
        ELSE IF bools /\ \A key \in DOMAIN params : ~Gain(key)
        THEN EQUIV_LOSS
        ELSE EQUIV_UNKNOWN

\* C25: the hint of Set is IMPROVE if every key is a boolean that is
\* positive-sense set to true or negative-sense set to false, LOSS if every
\* key is a boolean of the opposite kind, and UNKNOWN in every other case,
\* a mix of improving and losing booleans included.
C25_SetHint ==
    (out.op = "call" /\ ActionDef(act).form = "Set") =>
        ActionDef(act).equivtype = SetHintOfTable(ActionDef(act).params)

(***************************************************************************)
(* Properties of the histories and of the order of expansion.              *)
(***************************************************************************)
\* the for loop over the starting states (lines 185-192) is over
SetupDone ==
    /\ pc \in {"loop", "expand", "climb", "done"}
    /\ pc = "climb" => caller # "start"

\* the maximal find_maximal_state assigned to the i-th starting state
StartMaximal(i) == states[startstates[i]].maximal

\* the first starting state, in order, with the same maximal as the i-th
FirstWith(i) ==
    CHOOSE j \in DOMAIN startstates :
        /\ StartMaximal(j) = StartMaximal(i)
        /\ \A k \in 1 .. (j - 1) : StartMaximal(k) # StartMaximal(i)

\* C26, as stated: at setup, the maximal of each starting state is
\* registered with an empty history, also when the starting state is not
\* itself maximal.
C26_StartHistoryEmpty ==
    SetupDone =>
        \A i \in DOMAIN startstates :
            states[StartMaximal(i)].history = <<>>

\* C26: at setup, the maximal of each starting state is registered with the
\* improving actions that lead to it from the first starting state it is
\* the maximal of; the history is empty exactly when that starting state is
\* itself maximal.
C26_StartHistoryIsClimb ==
    SetupDone =>
        \A i \in DOMAIN startstates :
            LET M == StartMaximal(i)
                s == startstates[FirstWith(i)]
            IN  /\ states[M].history = states[s].maxing_actions
                /\ states[M].history = <<>> <=> s = M

\* A starting state was registered that is not itself maximal.
C26_Witness ==
    /\ SetupDone
    /\ \E i \in DOMAIN startstates :
          /\ StartMaximal(i) # startstates[i]
          /\ states[StartMaximal(i)].history # <<>>

\* seq is ls, or ls with elements appended
Extends(seq, ls) ==
    /\ Len(seq) >= Len(ls)
    /\ \A i \in DOMAIN ls : seq[i] = ls[i]

\* C27: once a maximal state is in the seen set, no later step of the run
\* changes its history; a step changes the node of a seen maximal only by
\* adding to its ancestors and to its lists of edges.
C27_FirstDiscoveryWins ==
    [][pc # "done" =>
         \A M \in seenmaxes :
            /\ M \in DOMAIN states'
            /\ states'[M].history = states[M].history
            /\ states[M].ancestors \subseteq states'[M].ancestors
            /\ Extends(states'[M].parents, states[M].parents)
            /\ Extends(states'[M].children, states[M].children)
            /\ states'[M] = [states[M] EXCEPT
                               !.ancestors = states'[M].ancestors,
                               !.parents = states'[M].parents,
                               !.children = states'[M].children]]_vars

\* A second edge into a seen maximal was recorded, along another chain than
\* the one its history ends with.
C27_Witness ==
    \E M \in seenmaxes :
        \E j \in DOMAIN states[M].parents :
            LET edge == states[M].parents[j]
            IN  /\ j > 1
                /\ states[M].history #
                       states[edge.state].history \o edge.aclist

\* The maximals in the order of their discovery: those popped, then those
\* still queued.
Discovered == maxls \o newstates

NoDuplicates(seq) == \A i, j \in DOMAIN seq : i # j => seq[i] # seq[j]

\* C28: maximals are expanded in the order of their discovery and at most
\* once each: the popped and the queued maximals together are the seen set,
\* without duplicates; a step puts a newly seen maximal behind all those
\* seen before it, and maxls only grows by the head of the queue.
C28_FifoOnce ==
    /\ [](NoDuplicates(Discovered) /\ Range(Discovered) = seenmaxes)
    /\ [][pc # "done" =>
            /\ Extends(Discovered', Discovered)
            /\ Extends(maxls', maxls)
            /\ Range(Discovered') \ Range(Discovered)
                   = seenmaxes' \ seenmaxes]_vars

\* Three maximals were popped while at least two waited in the queue, the
\* last popped being one discovered by an expansion.
C28_Witness ==
    /\ Len(maxls) >= 3
    /\ Len(newstates) >= 2
    /\ states[maxls[Len(maxls)]].parents # <<>>

\* C29: when a run ends with an empty queue, for every state M of the
\* maximal list and every change action c applicable to M, the maximal of
\* c(M) is in the maximal list: the rejections of a maximal equal to M or
\* among the ancestors of M drop an edge, never a state.
C29_FrontierClosed ==
    Completed =>
        \A i \in DOMAIN maxls : \A j \in DOMAIN changeactions :
           LET r == Call(ActionDef(changeactions[j]), maxls[i])
           IN  r.ok =>
                  /\ r.st \in DOMAIN states
                  /\ states[r.st].hasmax
                  /\ states[r.st].maximal \in Range(maxls)

\* A run has ended with an empty queue after an edge into an ancestor was
\* rejected.
C29_Witness ==
    /\ Completed
    /\ \E i \in DOMAIN maxls : \E j \in DOMAIN changeactions :
          LET M  == maxls[i]
              r  == Call(ActionDef(changeactions[j]), M)
              M2 == states[r.st].maximal
          IN  /\ r.ok
              /\ M2 # M
              /\ M2 \in states[M].ancestors
              /\ \A k \in DOMAIN states[M].children :
                    states[M].children[k].state # M2

\* C30: at every point of a run, for every maximal state M of the seen set
\* there is a starting state from which the actions of history(M), applied
\* in order, are all applicable and end exactly in M.
C30_HistoryIsPath ==
    \A M \in seenmaxes :
        /\ M \in DOMAIN states
        /\ \E i \in DOMAIN startstates :
              LET r == Replay(states[M].history, 1, startstates[i])
              IN  r.ok /\ r.st = M

\* A maximal found by an expansion is in the seen set, behind a history of
\* at least three actions, while the run is under way.
C30_Witness ==
    /\ pc \in {"expand", "climb"}
    /\ \E M \in seenmaxes :
          /\ states[M].parents # <<>>
          /\ Len(states[M].history) >= 3
          /\ \A i \in DOMAIN startstates : StartMaximal(i) # M

(***************************************************************************)
(* Runs of FormsScenario, whose Increment and Decrement actions are        *)
(* declared without a limit.                                               *)
(***************************************************************************)
\* The actions declared without a limit.
Unlimited == {"Grow", "Overdraw", "Owe"}

InitForms ==
    /\ scen = "FormsScenario"
    /\ \E block \in SUBSET Unlimited :
          LET Kept(name) == name \notin block
          IN  /\ actions = SelectSeq(ActionNames(scen), Kept)
              /\ limit \in IF block = Unlimited THEN Limits
                           ELSE 1 .. MaxLimit
    /\ startstates \in {<<StateDef("Empty")>>, <<StateDef("Lit")>>}
    /\ noopt \in BOOLEAN
    /\ improveactions = <<>>
    /\ changeactions = <<>>
    /\ states = EmptyDic
    /\ statels = <<>>
    /\ seenmaxes = {}
    /\ maxls = <<>>
    /\ newstates = <<>>
    /\ oldstate = EmptyDic
    /\ idx = 1
    /\ cstate = EmptyDic
    /\ statechain = <<>>
    /\ actchain = <<>>
    /\ caller = "none"
    /\ applied = EmptyDic
    /\ pc = "begin"
    /\ stopped = FALSE
    /\ prev = NoPrev
    /\ verdict = NoVerdict
    /\ IdleAlg
    /\ IdleShell

NextForms ==
    \/ Begin
    \/ StartState
    \/ Climb
    \/ Finish
    \/ LimitStop
    \/ Pop
    \/ Expand

SpecForms == InitForms /\ [][NextForms]_vars

\* C31: Graph.run terminates for every scenario, every list of starting
\* states and every limit, scenarios with an Increment on a positive-sense
\* key declared without a limit included: no call of find_maximal_state
\* goes on climbing without end (here: beyond MaxClimb states).
C31_RunTerminates ==
    pc # "hung"

(***************************************************************************)
(* Histories against the recorded edges.                                   *)
(***************************************************************************)
\* The actions applied along the recorded edges.
EdgeActions ==
    UNION {UNION {Range(states[M].children[j].aclist) :
                     j \in DOMAIN states[M].children} :
             M \in DOMAIN states}

\* The actions that occur in the history of some state.
HistoryActions ==
    UNION {Range(states[s].history) : s \in DOMAIN states}

\* Tests with one criterion.
ExcludesOnly(name) == Test(<<>>, {}, <<>>, <<name>>, <<>>, <<>>, <<>>, <<>>)
IncludesOnly(name) == Test(<<>>, {}, <<name>>, <<>>, <<>>, <<>>, <<>>, <<>>)

\* C32: after a complete run, every action that occurs in the chain of a
\* recorded edge occurs in the history of at least one state; so a test
\* with excludes=e passes only if e is applied on no recorded edge, and a
\* test with only includes=e passes whenever e is applied on some recorded
\* edge.
C32_HistoriesCoverEdges ==
    Completed =>
        /\ EdgeActions \subseteq HistoryActions
        /\ \A name \in Range(actions) :
              /\ verify(ExcludesOnly(name), states) =>
                    name \notin EdgeActions
              /\ name \in EdgeActions =>
                    verify(IncludesOnly(name), states)

(***************************************************************************)
(* Properties of the maximal closure.                                      *)
(***************************************************************************)
\* The actions of a chain, applied in order from position i on, are all
\* applicable and each yields a state strictly above the one before, by the
\* comparison of States and in the per-key order of the schema.
RECURSIVE ClimbsStrictly(_, _, _)
ClimbsStrictly(names, i, state) ==
    IF i > Len(names) THEN TRUE
    ELSE LET r == Call(ActionDef(names[i]), state)
         IN  /\ r.ok
             /\ StGt(r.st, state)
             /\ PerKeyOrder(r.st, state)
             /\ ClimbsStrictly(names, i + 1, r.st)

\* C33: whenever find_maximal_state has returned, for every state S of the
\* node table S <= maximal(S), maxing_actions(S) applied to S in order
\* yields exactly maximal(S), and every step of that replay is a strict
\* improvement, whatever the hints of the applied actions.
C33_ClosureOnlyClimbs ==
    NotClimbing =>
        \A S \in DOMAIN states :
           /\ StLe(S, states[S].maximal)
           /\ PerKeyOrder(states[S].maximal, S)
           /\ Replay(states[S].maxing_actions, 1, S).ok
           /\ Replay(states[S].maxing_actions, 1, S).st = states[S].maximal
           /\ ClimbsStrictly(states[S].maxing_actions, 1, S)

\* C34: after any run, a run stopped by the limit included, every child
\* edge recorded on a state of the maximal list points to a state of the
\* maximal list, and every parent edge likewise.
C34_EdgesStayInMaxls ==
    Returned =>
        \A i \in DOMAIN maxls :
           /\ \A j \in DOMAIN states[maxls[i]].children :
                 states[maxls[i]].children[j].state \in Range(maxls)
           /\ \A j \in DOMAIN states[maxls[i]].parents :
                 states[maxls[i]].parents[j].state \in Range(maxls)

====
